---- MODULE Spec2Model ----
(***************************************************************************)
(* Organizations Directory API (k1nque/test-task): the activity hierarchy, *)
(* the organization queries and the location search, modelled from the    *)
(* FastAPI handlers in src/app/api and the tables in src/app/models.       *)
(*                                                                         *)
(* The store is the committed content of the tables.  Every handler is one *)
(* action: it reads the store, writes it on a successful commit, and       *)
(* leaves the request it served and the response it produced in `request`  *)
(* and `response`.  Timestamps (created_at, updated_at) are left out of    *)
(* the rows: no handler reads them.  A query without ORDER BY returns its  *)
(* rows in insertion order.  The dependencies of a request (verify_api_key, *)
(* get_db) are steps of their own in the specification of the request      *)
(* lifecycle; the other specifications process a request that carries the  *)
(* configured API key in one step.                                         *)
(***************************************************************************)
EXTENDS Integers, Sequences, FiniteSets, TLC

VARIABLES
    max_activity_depth,     \* settings.MAX_ACTIVITY_DEPTH, loaded at start
    activities,             \* table activities: sequence of rows
    activity_id_seq,        \* next value of the activities.id sequence
    buildings,              \* table buildings: sequence of rows
    organizations,          \* table organizations: sequence of rows
    organization_phones,    \* table organization_phones: sequence of rows
    organization_activity,  \* association table: set of <<org id, activity id>>
    id_seq,                 \* next values of the id sequences of buildings,
                            \* organizations and organization_phones
    inflight,               \* the request being processed, and where it stands
    db,                     \* the session get_db made for that request
    transactions,           \* the create_activity requests in progress side
                            \* by side, each with its own session
    request,                \* the request served by the last step
    response,               \* the response of the last step
    helper_call             \* the helper call (tree builder, descendant walk)
                            \* the last step made

vars == <<max_activity_depth, activities, activity_id_seq, buildings,
          organizations, organization_phones, organization_activity, id_seq,
          inflight, db, transactions, request, response, helper_call>>

activity_store == <<activities, activity_id_seq>>
org_store == <<buildings, organizations, organization_phones,
               organization_activity, id_seq>>
\* the tables alone: what a commit changes and a rollback restores
tables == <<activities, buildings, organizations, organization_phones,
            organization_activity>>
\* the processing of one request, step by step
lifecycle == <<inflight, db, transactions>>

----------------------------------------------------------------------------
(* Bounds of the model and constants of the program *)

\* largest id the activities.id sequence hands out
MaxActivityId == 4
\* largest value MAX_ACTIVITY_DEPTH is configured to
MaxDepthConfig == 4

\* Optional[int] = None (a parent_id that is absent)
NoneId == 0
\* an id no row ever has
MissingId == 999
\* default of settings.MAX_ACTIVITY_DEPTH
MAX_ACTIVITY_DEPTH == 3
\* CheckConstraint("level >= 1 AND level <= 3")
CHECK_LEVEL_MIN == 1
CHECK_LEVEL_MAX == 3

ActivityNames == {"Food", "Meat", "Beef"}
ActivityIdInputs == (1..MaxActivityId) \cup {MissingId}

\* limit: int = Query(100, ge=1, le=1000)
DEFAULT_LIMIT == 100
Limits == {1, DEFAULT_LIMIT}
\* offset: int = Query(0, ge=0)
Offsets == {0, 1}

----------------------------------------------------------------------------
(* Helpers over sequences *)

Range(s) == {s[i] : i \in DOMAIN s}

RECURSIVE Concat(_)
\* list.extend over a sequence of lists
Concat(ss) == IF ss = <<>> THEN <<>> ELSE Head(ss) \o Concat(Tail(ss))

----------------------------------------------------------------------------
(* Queries on the activities table *)

\* the lookup without its filter: the first row of the table, whatever its id
activity_by_id_unfiltered(acts, id) ==
    IF acts = <<>> THEN <<>> ELSE <<Head(acts)>>

\* db.query(Activity).filter(Activity.id == id).first(): <<>> or <<row>>
activity_by_id(acts, id) ==
    LET found == SelectSeq(acts, LAMBDA a : a.id = id)
    IN  IF found = <<>> THEN <<>> ELSE <<Head(found)>>

\* db.query(Activity).filter(Activity.parent_id == id).all()
activity_children(acts, id) == SelectSeq(acts, LAMBDA a : a.parent_id = id)

ActivityIds(acts) == {a.id : a \in Range(acts)}

----------------------------------------------------------------------------
(* build_activity_tree *)

\* schemas.ActivityWithChildren(id=..., ..., children=kids)
ActivityWithChildren(a, kids) ==
    [id |-> a.id, name |-> a.name, parent_id |-> a.parent_id,
     level |-> a.level, children |-> kids]

\* the keys of activity_dict after the first loop
activity_dict_keys(acts) == ActivityIds(acts)

\* children inserted at the front of the list instead of appended
appended_children_reversed(acts, id) ==
    LET kids == SelectSeq(acts, LAMBDA a : /\ a.parent_id # NoneId
                                           /\ a.parent_id \in ActivityIds(acts)
                                           /\ a.parent_id = id)
    IN  [i \in 1..Len(kids) |-> kids[Len(kids) + 1 - i]]

\* the input activities the second loop appends to activity_dict[id].children,
\* in input order
appended_children(acts, id) ==
    SelectSeq(acts, LAMBDA a : /\ a.parent_id # NoneId
                               /\ a.parent_id \in activity_dict_keys(acts)
                               /\ a.parent_id = id)

RECURSIVE tree_node(_, _)
\* the children nested one level deep, each with an empty children list
tree_node_one_level(acts, a) ==
    LET kids == appended_children(acts, a.id)
    IN  ActivityWithChildren(a, [i \in 1..Len(kids) |->
                                    ActivityWithChildren(kids[i], <<>>)])

\* activity_dict[a.id] once the second loop is over: the children lists hold
\* references to the nodes of the dictionary, so each child carries the
\* children appended to it, whenever they were appended
tree_node(acts, a) ==
    LET kids == appended_children(acts, a.id)
    IN  ActivityWithChildren(a, [i \in 1..Len(kids) |-> tree_node(acts, kids[i])])

\* the roots inserted at the front of root_activities instead of appended
root_rows_reversed(acts) ==
    LET roots == SelectSeq(acts, LAMBDA a : a.parent_id = NoneId)
    IN  [i \in 1..Len(roots) |-> roots[Len(roots) + 1 - i]]

\* the activities the second loop appends to root_activities, in input order
root_rows(acts) == SelectSeq(acts, LAMBDA a : a.parent_id = NoneId)

build_activity_tree(acts) ==
    LET roots == root_rows(acts)
    IN  [i \in 1..Len(roots) |-> tree_node(acts, roots[i])]

----------------------------------------------------------------------------
(* The recursive descendant walks *)

RECURSIVE get_all_descendants(_, _)
\* the walk that takes the children and goes no deeper
get_all_descendants_children_only(acts, act_id) ==
    activity_children(acts, act_id)

\* get_all_descendants inside get_activity: the children, then the
\* descendants of each child
get_all_descendants(acts, act_id) ==
    LET children == activity_children(acts, act_id)
    IN  children \o
        Concat([i \in 1..Len(children) |->
                    get_all_descendants(acts, children[i].id)])

RECURSIVE get_activity_descendants(_, _)
\* the walk stopped at the direct children
get_activity_descendants_one_level(acts, activity_id) ==
    LET children == activity_children(acts, activity_id)
    IN  <<activity_id>> \o [i \in 1..Len(children) |-> children[i].id]

\* the walk started from an empty list instead of [activity_id]
get_activity_descendants_without_self(acts, activity_id) ==
    LET children == activity_children(acts, activity_id)
    IN  Concat([i \in 1..Len(children) |->
                    <<children[i].id>> \o
                    get_activity_descendants(acts, children[i].id)])

\* get_activity_descendants: the id itself, then the walk of each child
get_activity_descendants(acts, activity_id) ==
    LET children == activity_children(acts, activity_id)
    IN  <<activity_id>> \o
        Concat([i \in 1..Len(children) |->
                    get_activity_descendants(acts, children[i].id)])

----------------------------------------------------------------------------
(* Responses *)

HTTPException(status_code, detail) ==
    [status |-> status_code, detail |-> detail]

Ok(status_code, body) == [status |-> status_code, body |-> body]

NoRequest == [op |-> "none"]
NoResponse == [status |-> 0]

\* what a step that calls build_activity_tree(acts) leaves in helper_call
TreeCall(acts) ==
    [fn |-> "build_activity_tree", input |-> acts,
     output |-> build_activity_tree(acts)]

\* what a step that calls get_activity_descendants(db, activity_id) leaves
DescendantsCall(acts, activity_id) ==
    [fn |-> "get_activity_descendants", input |-> activity_id,
     output |-> get_activity_descendants(acts, activity_id)]

NoCall == [fn |-> "none"]

----------------------------------------------------------------------------
(* GET /activities/{activity_id} *)

\* the value get_activity returns for an activity that exists
get_activity_result(acts, activity) ==
    LET all_activities == <<activity>> \o get_all_descendants(acts, activity.id)
        tree == build_activity_tree(all_activities)
    IN  IF tree # <<>> THEN tree[1] ELSE ActivityWithChildren(activity, <<>>)

get_activity(activity_id) ==
    LET found == activity_by_id(activities, activity_id)
    IN  /\ request' = [op |-> "get_activity", activity_id |-> activity_id]
        /\ IF found = <<>>
           THEN /\ response' = HTTPException(404, "Activity not found")
                /\ helper_call' = NoCall
           ELSE /\ helper_call' = TreeCall(<<found[1]>> \o
                                    get_all_descendants(activities, found[1].id))
                /\ response' = Ok(200, get_activity_result(activities, found[1]))
        /\ UNCHANGED <<max_activity_depth, activity_store, org_store>>

----------------------------------------------------------------------------
(* POST /activities/ *)

\* the table without unique=True on activities.name
IntegrityError_without_unique(acts, row) ==
    \/ row.parent_id # NoneId /\ row.parent_id \notin ActivityIds(acts)
    \/ ~(row.level >= CHECK_LEVEL_MIN /\ row.level <= CHECK_LEVEL_MAX)

\* the table without the check constraint check_activity_level
IntegrityError_without_check(acts, row) ==
    \/ \E a \in Range(acts) : a.name = row.name
    \/ row.parent_id # NoneId /\ row.parent_id \notin ActivityIds(acts)

\* the database's verdict on the INSERT of db.commit(): the unique index on
\* activities.name, the foreign key of parent_id and the check constraint
\* check_activity_level
IntegrityError(acts, row) ==
    \/ \E a \in Range(acts) : a.name = row.name
    \/ row.parent_id # NoneId /\ row.parent_id \notin ActivityIds(acts)
    \/ ~(row.level >= CHECK_LEVEL_MIN /\ row.level <= CHECK_LEVEL_MAX)

\* the level of the parent taken over without the increment
computed_level_without_increment(parent) ==
    IF parent = <<>> THEN 1 ELSE parent[1].level

\* level as create_activity computes it: 1, or the parent's level plus 1
computed_level(parent) ==
    IF parent = <<>> THEN 1 ELSE parent[1].level + 1

\* the depth check off by one
depth_exceeded_off_by_one(level) == level > max_activity_depth + 1

\* the depth check of create_activity
depth_exceeded(level) == level > max_activity_depth

\* the row built without level=level: the column default 1 applies
new_activity_row_default_level(name, parent_id, level) ==
    [id |-> activity_id_seq, name |-> name, parent_id |-> parent_id,
     level |-> 1]

\* ActivityModel(name=..., parent_id=..., level=level), with the id the
\* sequence assigns at the INSERT
new_activity_row(name, parent_id, level) ==
    [id |-> activity_id_seq, name |-> name, parent_id |-> parent_id,
     level |-> level]

\* fault: "none", "commit" when the database fails between the INSERT and the
\* COMMIT, or "refresh" when it fails at db.refresh after the COMMIT, outside
\* the try block; the sequence value an INSERT took is not given back by a
\* rollback
create_activity(name, parent_id, fault) ==
    LET parent == IF parent_id # NoneId
                  THEN activity_by_id(activities, parent_id) ELSE <<>>
        level == computed_level(parent)
        new_activity == new_activity_row(name, parent_id, level)
    IN  /\ request' = [op |-> "create_activity", name |-> name,
                       parent_id |-> parent_id, fault |-> fault]
        /\ helper_call' = NoCall
        /\ IF parent_id # NoneId /\ parent = <<>>
           THEN /\ response' = HTTPException(404, "Activity not found")
                /\ UNCHANGED activity_store
           ELSE IF depth_exceeded(level)
           THEN /\ response' = HTTPException(400, "Maximum activity depth exceeded")
                /\ UNCHANGED activity_store
           ELSE /\ activity_id_seq <= MaxActivityId
                /\ activity_id_seq' = activity_id_seq + 1
                /\ IF IntegrityError(activities, new_activity)
                   THEN /\ response' = HTTPException(400,
                              "Activity violates unique or integrity constraints")
                        /\ UNCHANGED activities
                   ELSE IF fault = "commit"
                   THEN /\ response' = HTTPException(500, "Failed to create activity")
                        /\ UNCHANGED activities
                   ELSE IF fault = "refresh"
                   THEN /\ activities' = Append(activities, new_activity)
                        /\ response' = HTTPException(500, "Internal Server Error")
                   ELSE /\ activities' = Append(activities, new_activity)
                        /\ response' = Ok(201, new_activity)
        /\ UNCHANGED <<max_activity_depth, org_store>>

----------------------------------------------------------------------------
(* Queries on the organization tables *)

Min(a, b) == IF a <= b THEN a ELSE b
Max(a, b) == IF a >= b THEN a ELSE b

\* LIMIT taken for the index of the last row instead of a row count
offset_limit_as_last_index(rows, offset, limit) ==
    SubSeq(rows, offset + 1, Min(Len(rows), limit))

\* query.offset(offset).limit(limit).all()
offset_limit(rows, offset, limit) ==
    SubSeq(rows, offset + 1, Min(Len(rows), offset + limit))

RECURSIVE distinct(_)
\* the query without .distinct(): one row for every joined link
distinct_left_out(rows) == rows

\* SELECT DISTINCT: every row once, at its first occurrence
distinct(rows) ==
    IF rows = <<>> THEN <<>>
    ELSE LET init == distinct(SubSeq(rows, 1, Len(rows) - 1))
             last == rows[Len(rows)]
         IN  IF last \in Range(init) THEN init ELSE Append(init, last)

\* the lookup without its filter: the first building, whatever its id
building_by_id_unfiltered(rows, id) ==
    IF rows = <<>> THEN <<>> ELSE <<Head(rows)>>

\* db.query(Building).filter(Building.id == id).first(): <<>> or <<row>>
building_by_id(rows, id) ==
    LET found == SelectSeq(rows, LAMBDA b : b.id = id)
    IN  IF found = <<>> THEN <<>> ELSE <<Head(found)>>

\* db.query(Activity).filter(Activity.id.in_(ids)).all()
activities_in(acts, ids) == SelectSeq(acts, LAMBDA a : a.id \in Range(ids))

\* organizations JOIN organization_activity JOIN activities
\* (.join(OrganizationModel.activities)): one row per link
organization_activities_join(orgs, acts, links) ==
    Concat([i \in 1..Len(orgs) |->
        LET linked == SelectSeq(acts, LAMBDA a : <<orgs[i].id, a.id>> \in links)
        IN  [j \in 1..Len(linked) |->
                [organization |-> orgs[i], activity_id |-> linked[j].id]]])

\* schemas.Building built from a row: latitude is the point's y, longitude its x
BuildingResponse(b) ==
    [id |-> b.id, address |-> b.address,
     latitude |-> b.coordinates.y, longitude |-> b.coordinates.x]

\* schemas.Organization built from a row with its relationships loaded
OrganizationResponse(o, blds, phones, acts, links) ==
    LET own_phones == SelectSeq(phones, LAMBDA p : p.organization_id = o.id)
    IN  [id |-> o.id, name |-> o.name, building_id |-> o.building_id,
         phone_numbers |-> [i \in 1..Len(own_phones) |-> own_phones[i].phone_number],
         activities |-> SelectSeq(acts, LAMBDA a : <<o.id, a.id>> \in links),
         building |-> BuildingResponse(building_by_id(blds, o.building_id)[1])]

\* schemas.OrganizationList(organizations=page, total=total)
OrganizationList(rows, total) ==
    Ok(200, [organizations |->
                [i \in 1..Len(rows) |->
                    OrganizationResponse(rows[i], buildings, organization_phones,
                                         activities, organization_activity)],
             total |-> total])

----------------------------------------------------------------------------
(* GET /activities/ and GET /activities/tree *)

\* the activity names of the model in the order of the column's collation
NameOrder == <<"Beef", "Cars", "Food", "Meat">>
name_rank(name) == CHOOSE i \in DOMAIN NameOrder : NameOrder[i] = name

\* ORDER BY name alone
name_before(a, b) == name_rank(a.name) < name_rank(b.name)

\* .order_by(ActivityModel.level, ActivityModel.name): a is placed before b
level_name_before(a, b) ==
    \/ a.level < b.level
    \/ a.level = b.level /\ name_rank(a.name) < name_rank(b.name)

RECURSIVE order_by_level_name(_)
\* the rows as the database sorts them for ORDER BY level, name
order_by_level_name(rows) ==
    IF rows = <<>> THEN <<>>
    ELSE LET rest == order_by_level_name(Tail(rows))
             first == Head(rows)
         IN  SelectSeq(rest, LAMBDA r : level_name_before(r, first))
             \o <<first>> \o
             SelectSeq(rest, LAMBDA r : ~level_name_before(r, first))

\* level: <<>> when the query parameter is absent, else <<level>>
list_activities(level, limit, offset) ==
    LET query == IF level # <<>>
                 THEN SelectSeq(activities, LAMBDA a : a.level = level[1])
                 ELSE activities
    IN  /\ request' = [op |-> "list_activities", level |-> level,
                       limit |-> limit, offset |-> offset]
        /\ helper_call' = NoCall
        /\ response' = Ok(200, offset_limit(order_by_level_name(query),
                                            offset, limit))
        /\ UNCHANGED <<max_activity_depth, activity_store, org_store>>

get_activity_tree ==
    LET all_activities == order_by_level_name(activities)
    IN  /\ request' = [op |-> "get_activity_tree"]
        /\ helper_call' = TreeCall(all_activities)
        /\ response' = Ok(200, [activities |-> build_activity_tree(all_activities)])
        /\ UNCHANGED <<max_activity_depth, activity_store, org_store>>

----------------------------------------------------------------------------
(* GET /organizations/by-activity/{activity_id} *)

\* the organizations the by-activity query selects, before count and paging
organizations_by_activity_ids(activity_ids) ==
    LET joined == organization_activities_join(organizations, activities,
                                               organization_activity)
        filtered == SelectSeq(joined,
                        LAMBDA r : r.activity_id \in Range(activity_ids))
    IN  distinct([i \in 1..Len(filtered) |-> filtered[i].organization])

get_organizations_by_activity(activity_id, limit, offset) ==
    LET found == activity_by_id(activities, activity_id)
        activity_ids == get_activity_descendants(activities, activity_id)
        query == organizations_by_activity_ids(activity_ids)
    IN  /\ request' = [op |-> "get_organizations_by_activity",
                       activity_id |-> activity_id,
                       limit |-> limit, offset |-> offset]
        /\ IF found = <<>>
           THEN /\ response' = HTTPException(404, "Activity not found")
                /\ helper_call' = NoCall
           ELSE /\ helper_call' = DescendantsCall(activities, activity_id)
                /\ response' = OrganizationList(
                                   offset_limit(query, offset, limit), Len(query))
        /\ UNCHANGED <<max_activity_depth, activity_store, org_store>>

----------------------------------------------------------------------------
(* GET /organizations/, /organizations/by-building/{building_id},          *)
(* /organizations/{organization_id} and /organizations/search/by-name      *)

list_organizations(limit, offset) ==
    LET query == organizations
    IN  /\ request' = [op |-> "list_organizations",
                       limit |-> limit, offset |-> offset]
        /\ helper_call' = NoCall
        /\ response' = OrganizationList(offset_limit(query, offset, limit),
                                        Len(query))
        /\ UNCHANGED <<max_activity_depth, activity_store, org_store>>

get_organizations_by_building(building_id, limit, offset) ==
    LET building == building_by_id(buildings, building_id)
        query == SelectSeq(organizations,
                           LAMBDA o : o.building_id = building_id)
    IN  /\ request' = [op |-> "get_organizations_by_building",
                       building_id |-> building_id,
                       limit |-> limit, offset |-> offset]
        /\ helper_call' = NoCall
        /\ IF building = <<>>
           THEN response' = HTTPException(404, "Building not found")
           ELSE response' = OrganizationList(
                                offset_limit(query, offset, limit), Len(query))
        /\ UNCHANGED <<max_activity_depth, activity_store, org_store>>

\* db.query(Organization).filter(Organization.id == id).first(): <<>> or <<row>>
organization_by_id(orgs, id) ==
    LET found == SelectSeq(orgs, LAMBDA o : o.id = id)
    IN  IF found = <<>> THEN <<>> ELSE <<Head(found)>>

get_organization(organization_id) ==
    LET organization == organization_by_id(organizations, organization_id)
    IN  /\ request' = [op |-> "get_organization",
                       organization_id |-> organization_id]
        /\ helper_call' = NoCall
        /\ IF organization = <<>>
           THEN response' = HTTPException(404, "Organization not found")
           ELSE response' = Ok(200, OrganizationResponse(
                                organization[1], buildings, organization_phones,
                                activities, organization_activity))
        /\ UNCHANGED <<max_activity_depth, activity_store, org_store>>

\* Names that are searched are sequences of characters.  ILIKE folds case:
\* the letters of the model's alphabet in lower case
lower(c) ==
    CASE c = "A" -> "a"
      [] c = "B" -> "b"
      [] c = "C" -> "c"
      [] OTHER -> c

RECURSIVE like(_, _)
\* text LIKE pattern: "%" stands for any run of characters, "_" for any one
\* character, every other character for itself
like(text, pattern) ==
    IF pattern = <<>> THEN text = <<>>
    ELSE IF Head(pattern) = "%"
    THEN \E k \in 0..Len(text) :
             like(SubSeq(text, k + 1, Len(text)), Tail(pattern))
    ELSE /\ text # <<>>
         /\ Head(pattern) = "_" \/ Head(pattern) = Head(text)
         /\ like(Tail(text), Tail(pattern))

\* column.ilike(pattern)
ilike(text, pattern) ==
    like([i \in DOMAIN text |-> lower(text[i])],
         [i \in DOMAIN pattern |-> lower(pattern[i])])

search_organizations_by_name(name, limit, offset) ==
    LET pattern == <<"%">> \o name \o <<"%">>
        query == SelectSeq(organizations, LAMBDA o : ilike(o.name, pattern))
    IN  /\ request' = [op |-> "search_organizations_by_name", name |-> name,
                       limit |-> limit, offset |-> offset]
        /\ helper_call' = NoCall
        /\ response' = OrganizationList(offset_limit(query, offset, limit),
                                        Len(query))
        /\ UNCHANGED <<max_activity_depth, activity_store, org_store>>

----------------------------------------------------------------------------
(* GET /buildings/ and /buildings/{building_id} *)

\* SELECT ST_X(coordinates) AS lon, ST_Y(coordinates) AS lat FROM buildings
\* WHERE id = :id, .first(): <<>> or <<row>>
select_coords(blds, id) ==
    LET found == building_by_id(blds, id)
    IN  IF found = <<>> THEN <<>>
        ELSE <<[lon |-> found[1].coordinates.x, lat |-> found[1].coordinates.y]>>

\* schemas.Building(id=..., address=..., latitude=coords.lat if coords else
\* default_latitude, longitude=coords.lon if coords else default_longitude)
BuildingSchema(b, coords, default_latitude, default_longitude) ==
    [id |-> b.id, address |-> b.address,
     latitude |-> IF coords # <<>> THEN coords[1].lat ELSE default_latitude,
     longitude |-> IF coords # <<>> THEN coords[1].lon ELSE default_longitude]

list_buildings(limit, offset) ==
    LET query == buildings
        page == offset_limit(query, offset, limit)
    IN  /\ request' = [op |-> "list_buildings",
                       limit |-> limit, offset |-> offset]
        /\ helper_call' = NoCall
        /\ response' = Ok(200,
              [buildings |->
                  [i \in 1..Len(page) |->
                      BuildingSchema(page[i], select_coords(buildings, page[i].id),
                                     0, 0)],
               total |-> Len(query)])
        /\ UNCHANGED <<max_activity_depth, activity_store, org_store>>

get_building(building_id) ==
    LET building == building_by_id(buildings, building_id)
    IN  /\ request' = [op |-> "get_building", building_id |-> building_id]
        /\ helper_call' = NoCall
        /\ IF building = <<>>
           THEN response' = HTTPException(404, "Building not found")
           ELSE response' = Ok(200,
                    BuildingSchema(building[1],
                                   select_coords(buildings, building[1].id), 0, 0))
        /\ UNCHANGED <<max_activity_depth, activity_store, org_store>>

----------------------------------------------------------------------------
(* POST /buildings/ *)

\* the two coordinates written in the other order: POINT(latitude longitude)
Point_latitude_first(longitude, latitude) == [x |-> latitude, y |-> longitude]

\* WKTElement(f"POINT({longitude} {latitude})", srid=4326)
Point(longitude, latitude) == [x |-> longitude, y |-> latitude]

\* fault: "none", "commit" when db.commit() fails after the INSERT, or
\* "refresh" when db.refresh or the coordinates query fails after the COMMIT;
\* the except branch rolls back and answers 500 in both cases
create_building(address, latitude, longitude, fault) ==
    LET new_building == [id |-> id_seq.buildings, address |-> address,
                         coordinates |-> Point(longitude, latitude)]
    IN  /\ request' = [op |-> "create_building", address |-> address,
                       latitude |-> latitude, longitude |-> longitude,
                       fault |-> fault]
        /\ helper_call' = NoCall
        /\ id_seq' = [id_seq EXCEPT !.buildings = @ + 1]
        /\ IF fault = "commit"
           THEN /\ response' = HTTPException(500, "Failed to create building")
                /\ UNCHANGED buildings
           ELSE IF fault = "refresh"
           THEN /\ buildings' = Append(buildings, new_building)
                /\ response' = HTTPException(500, "Failed to create building")
           ELSE /\ buildings' = Append(buildings, new_building)
                /\ response' = Ok(201,
                       BuildingSchema(new_building,
                                      select_coords(buildings', new_building.id),
                                      latitude, longitude))
        /\ UNCHANGED <<max_activity_depth, activity_store, organizations,
                       organization_phones, organization_activity>>

----------------------------------------------------------------------------
(* POST /organizations/ *)

\* the check reduced to "nothing was found"
activities_missing_when_none_found(found, activity_ids) == found = <<>>

\* len(activities) != len(organization.activity_ids)
activities_missing(found, activity_ids) == Len(found) # Len(activity_ids)

\* fault: "none", "commit" when db.commit() fails after the INSERTs, or
\* "refresh" when db.refresh fails after the COMMIT; neither is caught, the
\* exception leaves the handler and get_db closes the session, which discards
\* what was not committed
create_organization(name, building_id, phone_numbers, activity_ids, fault) ==
    LET building == building_by_id(buildings, building_id)
        found == activities_in(activities, activity_ids)
        new_organization == [id |-> id_seq.organizations, name |-> name,
                             building_id |-> building_id]
        new_phones == [i \in 1..Len(phone_numbers) |->
                          [id |-> id_seq.organization_phones + i - 1,
                           organization_id |-> new_organization.id,
                           phone_number |-> phone_numbers[i]]]
        new_links == {<<new_organization.id, found[i].id>> : i \in 1..Len(found)}
        unchanged == UNCHANGED <<organizations, organization_phones,
                                 organization_activity>>
        inserted == /\ organizations' = Append(organizations, new_organization)
                    /\ organization_phones' = organization_phones \o new_phones
                    /\ organization_activity' = organization_activity \cup new_links
    IN  /\ request' = [op |-> "create_organization", name |-> name,
                       building_id |-> building_id,
                       phone_numbers |-> phone_numbers,
                       activity_ids |-> activity_ids, fault |-> fault]
        /\ helper_call' = NoCall
        /\ IF building = <<>>
           THEN /\ response' = HTTPException(404, "Building not found")
                /\ unchanged /\ UNCHANGED id_seq
           ELSE IF activity_ids # <<>> /\ activities_missing(found, activity_ids)
           THEN /\ response' = HTTPException(404, "Activities not found")
                /\ unchanged /\ UNCHANGED id_seq
           ELSE /\ id_seq' = [id_seq EXCEPT
                                 !.organizations = @ + 1,
                                 !.organization_phones = @ + Len(phone_numbers)]
                /\ IF fault = "commit"
                   THEN /\ response' = HTTPException(500, "Internal Server Error")
                        /\ unchanged
                   ELSE IF fault = "refresh"
                   THEN /\ response' = HTTPException(500, "Internal Server Error")
                        /\ inserted
                   ELSE /\ inserted
                        /\ response' = Ok(201, OrganizationResponse(
                                           new_organization, buildings,
                                           organization_phones', activities,
                                           organization_activity'))
        /\ UNCHANGED <<max_activity_depth, activity_store, buildings>>

----------------------------------------------------------------------------
(* POST /organizations/search/by-location *)

\* Optional[float]: None, or a value
None == <<>>
Some(v) == <<v>>

\* the truth value Python gives an Optional[float]
truthy(opt) == opt # None /\ opt[1] # 0

\* ST_DWithin(coordinates, point, radius, use_spheroid=True), on a grid where
\* the distance of two points is the Euclidean one
ST_DWithin(coordinates, point, radius) ==
    LET dx == coordinates.x - point.x
        dy == coordinates.y - point.y
    IN  dx * dx + dy * dy <= radius * radius

\* func.ST_Within(coordinates, POLYGON((min_lon min_lat, max_lon min_lat,
\* max_lon max_lat, min_lon max_lat, min_lon min_lat))): the point is in the
\* interior of the rectangle
ST_Within(coordinates, min_longitude, min_latitude, max_longitude, max_latitude) ==
    /\ Min(min_longitude, max_longitude) < coordinates.x
    /\ coordinates.x < Max(min_longitude, max_longitude)
    /\ Min(min_latitude, max_latitude) < coordinates.y
    /\ coordinates.y < Max(min_latitude, max_latitude)

\* any(...) in the place of all(...)
bbox_any_given(search) ==
    \/ search.min_latitude # None
    \/ search.max_latitude # None
    \/ search.min_longitude # None
    \/ search.max_longitude # None

\* all([min_latitude is not None, max_latitude is not None,
\*      min_longitude is not None, max_longitude is not None])
bbox_all_given(search) ==
    /\ search.min_latitude # None
    /\ search.max_latitude # None
    /\ search.min_longitude # None
    /\ search.max_longitude # None

\* the bounding box tried before the radius
location_mode_bbox_first(search) ==
    IF bbox_all_given(search) THEN "bbox"
    ELSE IF truthy(search.radius_meters) THEN "radius"
    ELSE "none"

\* the branch the if / elif / else of the handler takes: the first that matches
location_mode(search) ==
    IF truthy(search.radius_meters) THEN "radius"
    ELSE IF bbox_all_given(search) THEN "bbox"
    ELSE "none"

\* the WKT text the f-string builds is a polygon only when none of the four
\* fields was formatted as "None"; the database refuses any other text
bbox_wkt_parses(search) ==
    /\ search.min_latitude # None
    /\ search.max_latitude # None
    /\ search.min_longitude # None
    /\ search.max_longitude # None

\* db.query(OrganizationModel).join(OrganizationModel.building): the
\* organizations, each with the coordinates of its building
organizations_with_building ==
    SelectSeq(organizations,
              LAMBDA o : building_by_id(buildings, o.building_id) # <<>>)

organization_coordinates(o) ==
    building_by_id(buildings, o.building_id)[1].coordinates

\* the four bounds taken as distances from the centre point
bbox_query_around_point(search) ==
    SelectSeq(organizations_with_building,
              LAMBDA o : ST_Within(organization_coordinates(o),
                                   search.longitude + search.min_longitude[1],
                                   search.latitude + search.min_latitude[1],
                                   search.longitude + search.max_longitude[1],
                                   search.latitude + search.max_latitude[1]))

\* query.filter(func.ST_Within(Building.coordinates, bbox)): the bounds of
\* the request make the polygon, the centre point is not read
bbox_query(search) ==
    SelectSeq(organizations_with_building,
              LAMBDA o : ST_Within(organization_coordinates(o),
                                   search.min_longitude[1],
                                   search.min_latitude[1],
                                   search.max_longitude[1],
                                   search.max_latitude[1]))

search_organizations_by_location(search) ==
    LET point == Point(search.longitude, search.latitude)
        within_radius ==
            SelectSeq(organizations_with_building,
                      LAMBDA o : ST_DWithin(organization_coordinates(o), point,
                                            search.radius_meters[1]))
        within_bbox == bbox_query(search)
    IN  /\ request' = [op |-> "search_organizations_by_location",
                       search |-> search]
        /\ helper_call' = NoCall
        /\ IF location_mode(search) = "radius"
           THEN response' = OrganizationList(
                    offset_limit(within_radius, search.offset, search.limit),
                    Len(within_radius))
           ELSE IF location_mode(search) = "bbox"
           THEN IF bbox_wkt_parses(search)
                THEN response' = OrganizationList(
                         offset_limit(within_bbox, search.offset, search.limit),
                         Len(within_bbox))
                ELSE response' = HTTPException(500, "Internal Server Error")
           ELSE response' = HTTPException(400,
                    "Either radius_meters or all bounding box parameters must be provided")
        /\ UNCHANGED <<max_activity_depth, activity_store, org_store>>

----------------------------------------------------------------------------
(* The activity service *)

Faults == {"none", "commit"}

\* the id sequences of empty tables
FirstIds == [buildings |-> 1, organizations |-> 1, organization_phones |-> 1]
\* no request is being processed
Idle == [at |-> "idle"]
\* get_db has made no session
NoSession == [state |-> "none", closes |-> 0]

\* the requests that can be in progress side by side, and none of them begun
Workers == {1, 2}
NoTransaction == [pc |-> "idle"]
NoTransactions == [w \in Workers |-> NoTransaction]

Init ==
    /\ max_activity_depth \in 1..MaxDepthConfig
    /\ activities = <<>>
    /\ activity_id_seq = 1
    /\ buildings = <<>>
    /\ organizations = <<>>
    /\ organization_phones = <<>>
    /\ organization_activity = {}
    /\ id_seq = FirstIds
    /\ inflight = Idle
    /\ db = NoSession
    /\ transactions = NoTransactions
    /\ request = NoRequest
    /\ response = NoResponse
    /\ helper_call = NoCall

\* In this specification and the two after it every request carries the
\* configured API key and is processed in one step: the lifecycle variables
\* stay as Init leaves them.
CreateActivity ==
    /\ \E name \in ActivityNames, parent_id \in ActivityIdInputs \cup {NoneId},
          fault \in Faults :
           create_activity(name, parent_id, fault)
    /\ UNCHANGED lifecycle

GetActivity ==
    /\ \E activity_id \in ActivityIdInputs : get_activity(activity_id)
    /\ UNCHANGED lifecycle

\* the same request with the default paging
GetOrganizationsByActivityDefault ==
    /\ \E activity_id \in ActivityIdInputs :
           get_organizations_by_activity(activity_id, DEFAULT_LIMIT, 0)
    /\ UNCHANGED lifecycle

Next == CreateActivity \/ GetActivity \/ GetOrganizationsByActivityDefault

Spec == Init /\ [][Next]_vars

----------------------------------------------------------------------------
(* The activity listings, under the default depth and a database that      *)
(* does not fail                                                           *)

\* level: int = Query(None, ge=1, le=3)
LevelInputs == {<<>>} \cup {<<l>> : l \in CHECK_LEVEL_MIN..CHECK_LEVEL_MAX}

InitList ==
    /\ max_activity_depth = MAX_ACTIVITY_DEPTH
    /\ activities = <<>>
    /\ activity_id_seq = 1
    /\ buildings = <<>>
    /\ organizations = <<>>
    /\ organization_phones = <<>>
    /\ organization_activity = {}
    /\ id_seq = FirstIds
    /\ inflight = Idle
    /\ db = NoSession
    /\ transactions = NoTransactions
    /\ request = NoRequest
    /\ response = NoResponse
    /\ helper_call = NoCall

ListCreateActivity ==
    /\ \E name \in ActivityNames, parent_id \in ActivityIdInputs \cup {NoneId} :
           create_activity(name, parent_id, "none")
    /\ UNCHANGED lifecycle

ListActivities ==
    /\ \E level \in LevelInputs, limit \in Limits, offset \in Offsets :
           list_activities(level, limit, offset)
    /\ UNCHANGED lifecycle

GetActivityTree == get_activity_tree /\ UNCHANGED lifecycle

NextList == ListCreateActivity \/ ListActivities \/ GetActivityTree

SpecList == InitList /\ [][NextList]_vars

----------------------------------------------------------------------------
(* The organization directory over a taxonomy that has been set up *)

\* largest number of organizations and of buildings stored
MaxOrganizations == 2
MaxBuildings == 1

\* the taxonomy four create_activity requests leave under the default depth:
\* Food -> Meat -> Beef, and the unrelated root Cars
Taxonomy ==
    << [id |-> 1, name |-> "Food", parent_id |-> NoneId, level |-> 1],
       [id |-> 2, name |-> "Meat", parent_id |-> 1, level |-> 2],
       [id |-> 3, name |-> "Beef", parent_id |-> 2, level |-> 3],
       [id |-> 4, name |-> "Cars", parent_id |-> NoneId, level |-> 1] >>

TaxonomyIdInputs == ActivityIds(Taxonomy) \cup {MissingId}
BuildingIdInputs == {1, MissingId}
PhoneNumberInputs == {<<>>, <<"2-222-222", "3-333-333">>}
OrgActivityIdInputs ==
    {<<>>, <<2>>, <<3>>, <<4>>, <<1, 2>>, <<1, 1>>, <<1, 2, MissingId>>}

InitOrg ==
    /\ max_activity_depth = MAX_ACTIVITY_DEPTH
    /\ activities = Taxonomy
    /\ activity_id_seq = Len(Taxonomy) + 1
    /\ buildings = <<>>
    /\ organizations = <<>>
    /\ organization_phones = <<>>
    /\ organization_activity = {}
    /\ id_seq = FirstIds
    /\ inflight = Idle
    /\ db = NoSession
    /\ transactions = NoTransactions
    /\ request = NoRequest
    /\ response = NoResponse
    /\ helper_call = NoCall

CreateBuilding ==
    /\ Len(buildings) < MaxBuildings
    /\ create_building("Lenina 1", 0, 0, "none")
    /\ UNCHANGED lifecycle

CreateOrganization ==
    /\ Len(organizations) < MaxOrganizations
    /\ \E building_id \in BuildingIdInputs, phone_numbers \in PhoneNumberInputs,
          activity_ids \in OrgActivityIdInputs :
           create_organization("Acme", building_id, phone_numbers, activity_ids,
                               "none")
    /\ UNCHANGED lifecycle

GetOrganizationsByActivity ==
    /\ \E activity_id \in TaxonomyIdInputs, limit \in Limits, offset \in Offsets :
           get_organizations_by_activity(activity_id, limit, offset)
    /\ UNCHANGED lifecycle

NextOrg == CreateBuilding \/ CreateOrganization \/ GetOrganizationsByActivity

SpecOrg == InitOrg /\ [][NextOrg]_vars

----------------------------------------------------------------------------
(* DELETE FROM activities under the foreign keys of the schema *)

\* the rows that reference the deleted one directly, and no further
on_delete_cascade_one_level(rows, deleted) ==
    deleted \cup {r.id : r \in {a \in Range(rows) : a.parent_id \in deleted}}

RECURSIVE on_delete_cascade(_, _)
\* parent_id = ForeignKey("activities.id", ondelete="CASCADE"): every row
\* whose parent_id references a deleted row is deleted with it, and so on
\* for the rows that reference those
on_delete_cascade(rows, deleted) ==
    LET referencing ==
            {r.id : r \in {a \in Range(rows) : a.parent_id \in deleted}} \ deleted
    IN  IF referencing = {} THEN deleted
        ELSE on_delete_cascade(rows, deleted \cup referencing)

\* the deletion of the activities row with the given id: the rows of
\* organization_activity reference activities.id with ondelete="CASCADE"
\* and go with their activity; no other table references activities
delete_activity(activity_id) ==
    LET deleted == on_delete_cascade(activities,
                                     {activity_id} \cap ActivityIds(activities))
    IN  /\ request' = [op |-> "delete_activity", activity_id |-> activity_id]
        /\ response' = NoResponse
        /\ helper_call' = NoCall
        /\ activities' = SelectSeq(activities, LAMBDA a : a.id \notin deleted)
        /\ organization_activity' =
               {l \in organization_activity : l[2] \notin deleted}
        /\ UNCHANGED <<max_activity_depth, activity_id_seq, buildings,
                       organizations, organization_phones, id_seq>>

\* the taxonomy with tagged organizations, and rows of it deleted
CascadeActivityIdInputs == {<<3>>, <<4>>, <<1, 2>>}

CascadeCreateOrganization ==
    /\ Len(organizations) < MaxOrganizations
    /\ \E activity_ids \in CascadeActivityIdInputs :
           create_organization("Acme", 1, <<"2-222-222">>, activity_ids, "none")
    /\ UNCHANGED lifecycle

DeleteActivity ==
    /\ \E activity_id \in TaxonomyIdInputs : delete_activity(activity_id)
    /\ UNCHANGED lifecycle

NextCascade == CreateBuilding \/ CascadeCreateOrganization \/ DeleteActivity

SpecCascade == InitOrg /\ [][NextCascade]_vars

----------------------------------------------------------------------------
(* The location search over a directory of buildings and organizations *)

\* latitude and longitude of the grid points buildings stand on and searches
\* are centred on; a lower bbox bound is None or 0, an upper one None or 2
GridPoints == {<<0, 0>>, <<1, 1>>}
MinBoundInputs == {None, Some(0)}
MaxBoundInputs == {None, Some(2)}
RadiusInputs == {None, Some(1)}

\* the requests LocationSearch validates
LocationSearches ==
    {[latitude |-> c[1], longitude |-> c[2], radius_meters |-> r,
      min_latitude |-> b[1], max_latitude |-> b[2],
      min_longitude |-> b[3], max_longitude |-> b[4],
      limit |-> l, offset |-> f] :
        c \in GridPoints, r \in RadiusInputs,
        b \in MinBoundInputs \X MaxBoundInputs \X MinBoundInputs \X MaxBoundInputs,
        l \in Limits, f \in Offsets}

CreateBuildingAt ==
    /\ Len(buildings) < MaxBuildings
    /\ \E c \in GridPoints : create_building("Lenina 1", c[1], c[2], "none")
    /\ UNCHANGED lifecycle

CreateOrganizationUntagged ==
    /\ Len(organizations) < MaxOrganizations
    /\ \E building_id \in BuildingIdInputs :
           create_organization("Acme", building_id, <<>>, <<>>, "none")
    /\ UNCHANGED lifecycle

SearchOrganizationsByLocation ==
    /\ \E search \in LocationSearches : search_organizations_by_location(search)
    /\ UNCHANGED lifecycle

NextLoc ==
    CreateBuildingAt \/ CreateOrganizationUntagged \/ SearchOrganizationsByLocation

SpecLoc == InitOrg /\ [][NextLoc]_vars

----------------------------------------------------------------------------
(* The directory read through every query endpoint, over the taxonomy and  *)
(* two buildings that have been set up                                     *)

\* largest number of organizations stored in this specification
MaxDirOrganizations == 3

\* the buildings two create_building requests leave
Campus ==
    << [id |-> 1, address |-> "Lenina 1", coordinates |-> Point(0, 0)],
       [id |-> 2, address |-> "Mira 5", coordinates |-> Point(1, 1)] >>

CampusIdInputs == {b.id : b \in Range(Campus)} \cup {MissingId}

\* name, building_id and activity_ids of the organizations that are created
DirOrganizationInputs ==
    { <<<<"A", "b">>, 1, <<3>>>>, <<<<"b", "c">>, 1, <<>>>>,
      <<<<"b", "c">>, 2, <<4>>>> }

\* the name a by-name search asks for
NameInputs == {<<"a">>, <<"B">>, <<"_">>}

OrganizationIdInputs == (1..MaxDirOrganizations) \cup {MissingId}

\* location searches around (0, 0): by radius, by bounding box, by both and
\* by neither
DirSearches ==
    {[latitude |-> 0, longitude |-> 0, radius_meters |-> r,
      min_latitude |-> b[1], max_latitude |-> b[2],
      min_longitude |-> b[1], max_longitude |-> b[2],
      limit |-> l, offset |-> f] :
        r \in RadiusInputs, b \in {<<None, None>>, <<Some(0), Some(2)>>},
        l \in Limits, f \in Offsets}

InitDir ==
    /\ max_activity_depth = MAX_ACTIVITY_DEPTH
    /\ activities = Taxonomy
    /\ activity_id_seq = Len(Taxonomy) + 1
    /\ buildings = Campus
    /\ organizations = <<>>
    /\ organization_phones = <<>>
    /\ organization_activity = {}
    /\ id_seq = [FirstIds EXCEPT !.buildings = Len(Campus) + 1]
    /\ inflight = Idle
    /\ db = NoSession
    /\ transactions = NoTransactions
    /\ request = NoRequest
    /\ response = NoResponse
    /\ helper_call = NoCall

DirCreateOrganization ==
    /\ Len(organizations) < MaxDirOrganizations
    /\ \E o \in DirOrganizationInputs :
           create_organization(o[1], o[2], <<>>, o[3], "none")
    /\ UNCHANGED lifecycle

DirListOrganizations ==
    /\ \E limit \in Limits, offset \in Offsets : list_organizations(limit, offset)
    /\ UNCHANGED lifecycle

DirGetOrganizationsByBuilding ==
    /\ \E building_id \in CampusIdInputs, limit \in Limits, offset \in Offsets :
           get_organizations_by_building(building_id, limit, offset)
    /\ UNCHANGED lifecycle

DirGetOrganizationsByActivity ==
    /\ \E activity_id \in TaxonomyIdInputs, limit \in Limits, offset \in Offsets :
           get_organizations_by_activity(activity_id, limit, offset)
    /\ UNCHANGED lifecycle

DirSearchOrganizationsByName ==
    /\ \E name \in NameInputs, limit \in Limits, offset \in Offsets :
           search_organizations_by_name(name, limit, offset)
    /\ UNCHANGED lifecycle

DirSearchOrganizationsByLocation ==
    /\ \E search \in DirSearches : search_organizations_by_location(search)
    /\ UNCHANGED lifecycle

DirListBuildings ==
    /\ \E limit \in Limits, offset \in Offsets : list_buildings(limit, offset)
    /\ UNCHANGED lifecycle

DirGetOrganization ==
    /\ \E organization_id \in OrganizationIdInputs :
           get_organization(organization_id)
    /\ UNCHANGED lifecycle

DirGetBuilding ==
    /\ \E building_id \in CampusIdInputs : get_building(building_id)
    /\ UNCHANGED lifecycle

DirGetActivity ==
    /\ \E activity_id \in TaxonomyIdInputs : get_activity(activity_id)
    /\ UNCHANGED lifecycle

NextDir ==
    \/ DirCreateOrganization
    \/ DirListOrganizations
    \/ DirGetOrganizationsByBuilding
    \/ DirGetOrganizationsByActivity
    \/ DirSearchOrganizationsByName
    \/ DirSearchOrganizationsByLocation
    \/ DirListBuildings
    \/ DirGetOrganization
    \/ DirGetBuilding
    \/ DirGetActivity

SpecDir == InitDir /\ [][NextDir]_vars

----------------------------------------------------------------------------
(* The write requests against a database that may fail, and the buildings  *)
(* read back                                                               *)

\* the faults a write request meets
WriteFaults == {"none", "commit", "refresh"}

\* address, latitude and longitude of the buildings that are created; the
\* address tells which coordinates were asked for
BuildingInputs == {<<"Lenina 1", 1, 2>>, <<"Mira 5", -2, 0>>}

\* the chain Food -> Meat -> Beef three create_activity requests leave under
\* the default depth and under every larger one
Chain == SubSeq(Taxonomy, 1, 3)

InitWrite ==
    /\ max_activity_depth \in MAX_ACTIVITY_DEPTH..MaxDepthConfig
    /\ activities = Chain
    /\ activity_id_seq = Len(Chain) + 1
    /\ buildings = <<>>
    /\ organizations = <<>>
    /\ organization_phones = <<>>
    /\ organization_activity = {}
    /\ id_seq = FirstIds
    /\ inflight = Idle
    /\ db = NoSession
    /\ transactions = NoTransactions
    /\ request = NoRequest
    /\ response = NoResponse
    /\ helper_call = NoCall

WriteCreateActivity ==
    /\ \E name \in {"Cars", "Beef"}, parent_id \in {NoneId, 3, MissingId},
          fault \in WriteFaults :
           create_activity(name, parent_id, fault)
    /\ UNCHANGED lifecycle

WriteCreateBuilding ==
    /\ id_seq.buildings <= MaxBuildings
    /\ \E b \in BuildingInputs, fault \in WriteFaults :
           create_building(b[1], b[2], b[3], fault)
    /\ UNCHANGED lifecycle

WriteCreateOrganization ==
    /\ id_seq.organizations <= MaxOrganizations
    /\ \E building_id \in BuildingIdInputs,
          activity_ids \in {<<2>>, <<2, MissingId>>}, fault \in WriteFaults :
           create_organization("Acme", building_id, <<"2-222-222">>,
                               activity_ids, fault)
    /\ UNCHANGED lifecycle

WriteGetBuilding ==
    /\ \E building_id \in (1..MaxBuildings) \cup {MissingId} :
           get_building(building_id)
    /\ UNCHANGED lifecycle

WriteListBuildings ==
    /\ \E limit \in Limits, offset \in Offsets : list_buildings(limit, offset)
    /\ UNCHANGED lifecycle

NextWrite ==
    \/ WriteCreateActivity
    \/ WriteCreateBuilding
    \/ WriteCreateOrganization
    \/ WriteGetBuilding
    \/ WriteListBuildings

SpecWrite == InitWrite /\ [][NextWrite]_vars

----------------------------------------------------------------------------
(* The lifecycle of a request: its dependencies, its handler, and the end  *)
(* of the session get_db made for it                                       *)

\* settings.API_KEY
API_KEY == "your-secret-api-key-change-in-production"

\* the X-API-Key header of a request: absent, the configured key, another one
ApiKeyInputs == {None, Some(API_KEY), Some("invalid")}

\* the handlers of the three routers, included under settings.API_V1_PREFIX
V1Endpoints ==
    {"list_organizations", "get_organization", "get_organizations_by_building",
     "get_organizations_by_activity", "search_organizations_by_name",
     "search_organizations_by_location", "create_organization",
     "list_buildings", "get_building", "create_building",
     "list_activities", "get_activity_tree", "get_activity", "create_activity"}

\* GET / and GET /health
OpenEndpoints == {"root", "health_check"}

\* only the write handlers declared with the dependency
depends_on_verify_api_key_for_writes(endpoint) ==
    endpoint \in {"create_organization", "create_building", "create_activity"}

\* api_key: str = Depends(verify_api_key) in the signature of the handler
depends_on_verify_api_key(endpoint) == endpoint \in V1Endpoints

\* db: Session = Depends(get_db) in the signature of the handler
depends_on_get_db(endpoint) == endpoint \in V1Endpoints

\* verify_api_key lets the request through
verify_api_key(x_api_key) == x_api_key = Some(API_KEY)

\* finally without db.close()
db_close_skipped(session) == session

\* db.close() in the finally block of get_db
db_close(session) == [state |-> "closed", closes |-> session.closes + 1]

\* db = SessionLocal()
SessionLocal == [state |-> "open", closes |-> 0]

\* the step after the dependency that was just resolved
after_verify_api_key(endpoint) ==
    IF depends_on_get_db(endpoint) THEN "get_db" ELSE "handler"
first_step(endpoint) ==
    IF depends_on_verify_api_key(endpoint) THEN "verify_api_key"
    ELSE after_verify_api_key(endpoint)

\* a request arrives while none is being processed; a create request is
\* taken only while the table it writes has room in the model
receive(endpoint, x_api_key) ==
    /\ inflight = Idle
    /\ endpoint = "create_activity" => activity_id_seq <= MaxActivityId
    /\ endpoint = "create_building" => id_seq.buildings <= MaxBuildings
    /\ endpoint = "create_organization" => id_seq.organizations <= MaxOrganizations
    /\ inflight' = [at |-> first_step(endpoint), endpoint |-> endpoint,
                    x_api_key |-> x_api_key]
    /\ db' = NoSession
    /\ request' = NoRequest
    /\ response' = NoResponse
    /\ helper_call' = NoCall
    /\ UNCHANGED <<max_activity_depth, activity_store, org_store, transactions>>

\* the dependency verify_api_key: 403 ends the request, nothing else runs
resolve_verify_api_key ==
    /\ inflight.at = "verify_api_key"
    /\ IF verify_api_key(inflight.x_api_key)
       THEN /\ inflight' = [inflight EXCEPT
                               !.at = after_verify_api_key(inflight.endpoint)]
            /\ UNCHANGED <<request, response>>
       ELSE /\ inflight' = Idle
            /\ request' = [op |-> inflight.endpoint,
                           x_api_key |-> inflight.x_api_key]
            /\ response' = HTTPException(403, "Invalid API key")
    /\ UNCHANGED <<max_activity_depth, activity_store, org_store, db,
                   transactions, helper_call>>

\* the dependency get_db, up to its yield
resolve_get_db ==
    /\ inflight.at = "get_db"
    /\ db' = SessionLocal
    /\ inflight' = [inflight EXCEPT !.at = "handler"]
    /\ UNCHANGED <<max_activity_depth, activity_store, org_store, transactions,
                   request, response, helper_call>>

\* GET /
root ==
    /\ request' = [op |-> "root"]
    /\ response' = Ok(200, [message |-> "Organizations Directory API",
                            version |-> "1.0.0",
                            docs |-> "/docs", redoc |-> "/redoc"])
    /\ helper_call' = NoCall
    /\ UNCHANGED <<max_activity_depth, activity_store, org_store>>

\* GET /health
health_check ==
    /\ request' = [op |-> "health_check"]
    /\ response' = Ok(200, [status |-> "healthy"])
    /\ helper_call' = NoCall
    /\ UNCHANGED <<max_activity_depth, activity_store, org_store>>

\* the search a by-location request of this specification carries
RadiusSearch ==
    [latitude |-> 0, longitude |-> 0, radius_meters |-> Some(1),
     min_latitude |-> None, max_latitude |-> None,
     min_longitude |-> None, max_longitude |-> None,
     limit |-> DEFAULT_LIMIT, offset |-> 0]

\* the handler of the endpoint runs, returns or raises; a handler with a
\* session goes on to the finally block of get_db
run_handler ==
    /\ inflight.at = "handler"
    /\ \/ /\ inflight.endpoint = "list_organizations"
          /\ list_organizations(DEFAULT_LIMIT, 0)
       \/ /\ inflight.endpoint = "get_organization"
          /\ \E id \in {1, MissingId} : get_organization(id)
       \/ /\ inflight.endpoint = "get_organizations_by_building"
          /\ \E id \in {1, MissingId} :
                 get_organizations_by_building(id, DEFAULT_LIMIT, 0)
       \/ /\ inflight.endpoint = "get_organizations_by_activity"
          /\ \E id \in {1, MissingId} :
                 get_organizations_by_activity(id, DEFAULT_LIMIT, 0)
       \/ /\ inflight.endpoint = "search_organizations_by_name"
          /\ search_organizations_by_name(<<"a">>, DEFAULT_LIMIT, 0)
       \/ /\ inflight.endpoint = "search_organizations_by_location"
          /\ \E r \in RadiusInputs :
                 search_organizations_by_location(
                     [RadiusSearch EXCEPT !.radius_meters = r])
       \/ /\ inflight.endpoint = "create_organization"
          /\ \E building_id \in BuildingIdInputs, fault \in Faults :
                 create_organization(<<"A", "b">>, building_id, <<>>, <<>>, fault)
       \/ /\ inflight.endpoint = "list_buildings"
          /\ list_buildings(DEFAULT_LIMIT, 0)
       \/ /\ inflight.endpoint = "get_building"
          /\ \E id \in {1, MissingId} : get_building(id)
       \/ /\ inflight.endpoint = "create_building"
          /\ \E fault \in Faults : create_building("Lenina 1", 0, 0, fault)
       \/ /\ inflight.endpoint = "list_activities"
          /\ list_activities(<<>>, DEFAULT_LIMIT, 0)
       \/ /\ inflight.endpoint = "get_activity_tree"
          /\ get_activity_tree
       \/ /\ inflight.endpoint = "get_activity"
          /\ \E id \in {1, MissingId} : get_activity(id)
       \/ /\ inflight.endpoint = "create_activity"
          /\ \E parent_id \in {NoneId, MissingId} :
                 create_activity("Cars", parent_id, "none")
       \/ /\ inflight.endpoint = "root"
          /\ root
       \/ /\ inflight.endpoint = "health_check"
          /\ health_check
    /\ inflight' = IF depends_on_get_db(inflight.endpoint)
                   THEN [inflight EXCEPT !.at = "finally"]
                   ELSE Idle
    /\ db' = db
    /\ UNCHANGED transactions

\* get_db after its yield: the finally block, entered when the handler has
\* returned and when it has raised
get_db_finally ==
    /\ inflight.at = "finally"
    /\ db' = db_close(db)
    /\ inflight' = Idle
    /\ UNCHANGED <<max_activity_depth, activity_store, org_store, transactions,
                   request, response, helper_call>>

Receive ==
    \E endpoint \in V1Endpoints \cup OpenEndpoints, x_api_key \in ApiKeyInputs :
        receive(endpoint, x_api_key)

NextRequest ==
    \/ Receive
    \/ resolve_verify_api_key
    \/ resolve_get_db
    \/ run_handler
    \/ get_db_finally

SpecRequest == InitWrite /\ [][NextRequest]_vars

\* the server runs a request it has received to its end: a dependency that
\* is due is resolved, a handler that is due runs, and the generator of
\* get_db is resumed
SpecRequestFair ==
    /\ SpecRequest
    /\ WF_vars(resolve_verify_api_key)
    /\ WF_vars(resolve_get_db)
    /\ WF_vars(run_handler)
    /\ WF_vars(get_db_finally)

----------------------------------------------------------------------------
(* Two create_activity requests side by side.  Each has a session of its   *)
(* own; db.commit() first sends the INSERT and then the COMMIT, and the    *)
(* other request can take its steps before, between and after the two.     *)

ConcurrentNames == {"Food", "Meat"}
ConcurrentParentIds == {NoneId, 1, MissingId}

\* the unique index ignored while the other INSERT is not committed
unique_index_waits_never(w, name) == FALSE

\* ix_activities_name, unique: an INSERT of a name another transaction has
\* inserted and not committed waits for the end of that transaction
unique_index_waits(w, name) ==
    \E v \in Workers \ {w} :
        transactions[v].pc = "flushed" /\ transactions[v].name = name

\* requests past their checks whose INSERT is still to come
awaiting_insert == {w \in Workers : transactions[w].pc = "added"}

\* create_activity up to db.add(new_activity): the parent lookup and the
\* depth check, on the committed rows; began_at is the number of committed
\* rows the request found
begin_create_activity(w, name, parent_id) ==
    LET parent == IF parent_id # NoneId
                  THEN activity_by_id(activities, parent_id) ELSE <<>>
        level == computed_level(parent)
        asked == [name |-> name, parent_id |-> parent_id,
                  began_at |-> Len(activities)]
    IN  /\ transactions[w].pc = "idle"
        /\ activity_id_seq + Cardinality(awaiting_insert) <= MaxActivityId
        /\ transactions' = [transactions EXCEPT ![w] =
               IF parent_id # NoneId /\ parent = <<>>
               THEN [pc |-> "done", response |->
                        HTTPException(404, "Activity not found")] @@ asked
               ELSE IF depth_exceeded(level)
               THEN [pc |-> "done", response |->
                        HTTPException(400, "Maximum activity depth exceeded")] @@ asked
               ELSE [pc |-> "added", level |-> level] @@ asked]
        /\ UNCHANGED <<max_activity_depth, activity_store, org_store, inflight,
                       db, request, response, helper_call>>

\* db.commit(), first half: the INSERT takes its id from the sequence and
\* meets the constraints; on IntegrityError the handler rolls back and
\* raises 400
flush_create_activity(w) ==
    LET t == transactions[w]
        new_activity == new_activity_row(t.name, t.parent_id, t.level)
    IN  /\ t.pc = "added"
        /\ ~unique_index_waits(w, t.name)
        /\ activity_id_seq' = activity_id_seq + 1
        /\ transactions' = [transactions EXCEPT ![w] =
               IF IntegrityError(activities, new_activity)
               THEN [pc |-> "done", name |-> t.name, parent_id |-> t.parent_id,
                     began_at |-> t.began_at, level |-> t.level,
                     row |-> new_activity, response |->
                        HTTPException(400,
                            "Activity violates unique or integrity constraints")]
               ELSE [pc |-> "flushed", name |-> t.name,
                     parent_id |-> t.parent_id, began_at |-> t.began_at,
                     level |-> t.level, row |-> new_activity]]
        /\ UNCHANGED <<max_activity_depth, activities, org_store, inflight, db,
                       request, response, helper_call>>

\* db.commit(), second half, then db.refresh and the 201
commit_create_activity(w) ==
    LET t == transactions[w]
    IN  /\ t.pc = "flushed"
        /\ activities' = Append(activities, t.row)
        /\ transactions' = [transactions EXCEPT ![w] =
               [pc |-> "done", name |-> t.name, parent_id |-> t.parent_id,
                began_at |-> t.began_at, level |-> t.level, row |-> t.row,
                response |-> Ok(201, t.row)]]
        /\ UNCHANGED <<max_activity_depth, activity_id_seq, org_store, inflight,
                       db, request, response, helper_call>>

\* the response is sent and the worker is free for the next request
end_create_activity(w) ==
    /\ transactions[w].pc = "done"
    /\ transactions' = [transactions EXCEPT ![w] = NoTransaction]
    /\ UNCHANGED <<max_activity_depth, activity_store, org_store, inflight, db,
                   request, response, helper_call>>

BeginCreateActivity ==
    \E w \in Workers, name \in ConcurrentNames, parent_id \in ConcurrentParentIds :
        begin_create_activity(w, name, parent_id)

FlushCreateActivity == \E w \in Workers : flush_create_activity(w)

CommitCreateActivity == \E w \in Workers : commit_create_activity(w)

EndCreateActivity == \E w \in Workers : end_create_activity(w)

NextConcurrent ==
    \/ BeginCreateActivity
    \/ FlushCreateActivity
    \/ CommitCreateActivity
    \/ EndCreateActivity

SpecConcurrent == InitList /\ [][NextConcurrent]_vars

----------------------------------------------------------------------------
(* What the claims speak of, stated on the rows of the store and on the   *)
(* nodes of a response, without the handlers' own walks                   *)

RowById(acts, id) == CHOOSE a \in Range(acts) : a.id = id

ChildIds(acts, id) == {a.id : a \in {r \in Range(acts) : r.parent_id = id}}

RECURSIVE DownwardClosure(_, _)
\* the least set that holds S and the children of its members
DownwardClosure(acts, S) ==
    LET T == S \cup {a.id : a \in {r \in Range(acts) : r.parent_id \in S}}
    IN  IF T = S THEN S ELSE DownwardClosure(acts, T)

\* x and all its transitive descendants
SubtreeIds(acts, x) == DownwardClosure(acts, {x})

RECURSIVE NodeEdges(_)
\* <<child id, id of the node it is nested under>> for every nested node
NodeEdges(node) ==
    UNION {{<<node.children[i].id, node.id>>} \cup NodeEdges(node.children[i]) :
              i \in DOMAIN node.children}

RECURSIVE NodeCount(_)
NodeCount(node) ==
    LET counts == [i \in DOMAIN node.children |-> NodeCount(node.children[i])]
        Sum[n \in 0..Len(counts)] == IF n = 0 THEN 0 ELSE counts[n] + Sum[n - 1]
    IN  1 + Sum[Len(counts)]

RECURSIVE NodeIds(_)
NodeIds(node) ==
    {node.id} \cup UNION {NodeIds(node.children[i]) : i \in DOMAIN node.children}

ForestIds(forest) == UNION {NodeIds(forest[i]) : i \in DOMAIN forest}

RECURSIVE ReachesRoot(_, _, _)
\* following parent links from id ends at a root and visits no id twice
ReachesRoot(acts, id, visited) ==
    IF id = NoneId THEN TRUE
    ELSE IF id \in visited \/ id \notin ActivityIds(acts) THEN FALSE
    ELSE ReachesRoot(acts, RowById(acts, id).parent_id, visited \cup {id})

----------------------------------------------------------------------------
(* The claims on the activity service *)

\* C1: a create_activity that succeeds stores exactly one new activity, with
\* level 1 when parent_id is absent and the parent's level plus 1 otherwise;
\* when the computed level exceeds the configured max depth the request
\* fails with status 400 and the stored activities are unchanged.
C1_CreateLevelAndDepth ==
    [][request'.op = "create_activity" =>
        LET p == request'.parent_id
            known == p = NoneId \/ p \in ActivityIds(activities)
            lvl == IF p = NoneId THEN 1 ELSE RowById(activities, p).level + 1
        IN  /\ response'.status = 201 =>
                /\ known
                /\ activities' = Append(activities, response'.body)
                /\ response'.body.name = request'.name
                /\ response'.body.parent_id = p
                /\ response'.body.level = lvl
                /\ lvl <= max_activity_depth
            /\ (known /\ lvl > max_activity_depth) =>
                /\ response'.status = 400
                /\ response'.detail = "Maximum activity depth exceeded"
                /\ activities' = activities
    ]_vars

\* Food -> Meat -> Beef stored with levels 1, 2, 3 under the default depth,
\* and a child of Beef just rejected
C1_Witness ==
    /\ max_activity_depth = MAX_ACTIVITY_DEPTH
    /\ Len(activities) = 3
    /\ \E a, b, c \in Range(activities) :
          /\ a.name = "Food" /\ a.parent_id = NoneId /\ a.level = 1
          /\ b.name = "Meat" /\ b.parent_id = a.id /\ b.level = 2
          /\ c.name = "Beef" /\ c.parent_id = b.id /\ c.level = 3
          /\ request.op = "create_activity" /\ request.parent_id = c.id
    /\ response.status = 400

\* C2: get_activity(x), for every stored x, returns one node with id x whose
\* nested children hold exactly the transitive descendants of x, each under
\* its own parent and once; children is empty only when x has no children.
C2_GetActivitySubtree ==
    (request.op = "get_activity" /\ response.status = 200) =>
        LET x == request.activity_id
            body == response.body
            below == SubtreeIds(activities, x) \ {x}
        IN  /\ body.id = x
            /\ NodeEdges(body) =
                  {<<id, RowById(activities, id).parent_id>> : id \in below}
            /\ NodeCount(body) = Cardinality(below) + 1
            /\ (body.children = <<>>) <=> (ChildIds(activities, x) = {})

\* C3: the roots build_activity_tree returns are exactly the input nodes whose
\* parent_id is absent or whose parent is not in the input, and the forest
\* holds every input node and nothing else.
C3_TreeRootsAndNodes ==
    helper_call.fn = "build_activity_tree" =>
        LET inp == helper_call.input
            out == helper_call.output
            ids == ActivityIds(inp)
        IN  /\ {out[i].id : i \in DOMAIN out} =
                  {a.id : a \in {r \in Range(inp) :
                                    r.parent_id = NoneId \/ r.parent_id \notin ids}}
            /\ ForestIds(out) = ids

\* C4: for every stored activity x, get_activity_descendants(x) contains x,
\* holds more than x when x has a child, and is exactly <<x>> when x is a
\* leaf; the walk the by-activity handler made says the same.
C4_DescendantsOfSelf ==
    /\ \A x \in ActivityIds(activities) :
          LET d == get_activity_descendants(activities, x)
          IN  /\ x \in Range(d)
              /\ ChildIds(activities, x) # {} =>
                    /\ {x} \subseteq Range(d) /\ Range(d) # {x}
                    /\ ChildIds(activities, x) \subseteq Range(d)
              /\ ChildIds(activities, x) = {} => d = <<x>>
    /\ helper_call.fn = "get_activity_descendants" =>
          /\ helper_call.input \in Range(helper_call.output)
          /\ Range(helper_call.output) = SubtreeIds(activities, helper_call.input)

\* the handler walked from an activity that has a grandchild
C4_Witness ==
    /\ helper_call.fn = "get_activity_descendants"
    /\ Len(helper_call.output) = 3
    /\ \E a \in Range(activities) :
          /\ a.level = 3
          /\ RowById(activities, a.parent_id).parent_id = helper_call.input
    /\ \E a \in Range(activities) :
          get_activity_descendants(activities, a.id) = <<a.id>>

\* C8: every stored activity has level 1 exactly when it has no parent, and
\* otherwise the level of its parent plus 1.
C8_LevelMatchesParent ==
    \A a \in Range(activities) :
        /\ (a.level = 1) <=> (a.parent_id = NoneId)
        /\ a.parent_id # NoneId =>
              /\ a.parent_id \in ActivityIds(activities)
              /\ a.level = RowById(activities, a.parent_id).level + 1

\* levels 1, 2 and 3 are stored and the last create_activity failed
C8_Witness ==
    /\ {a.level : a \in Range(activities)} = {1, 2, 3}
    /\ request.op = "create_activity"
    /\ response.status \in {400, 404, 500}

\* C9: every non-null parent_id refers to an activity stored before the child
\* (an earlier row with a smaller id) of strictly lower level, and following
\* parent links from any activity reaches a root without revisiting a node.
C9_Forest ==
    \A i \in DOMAIN activities :
        LET a == activities[i]
        IN  /\ a.parent_id # NoneId =>
                  \E j \in 1..(i - 1) :
                      /\ activities[j].id = a.parent_id
                      /\ activities[j].id < a.id
                      /\ activities[j].level < a.level
            /\ ReachesRoot(activities, a.id, {})

\* two trees side by side: a chain of two under one root, and a second root
\* stored between them
C9_Witness ==
    /\ Len(activities) = 3
    /\ activities[1].parent_id = NoneId
    /\ activities[2].parent_id = NoneId
    /\ activities[3].parent_id = activities[1].id
    /\ activities[3].id > activities[2].id + 1

NamesDistinct ==
    \A i, j \in DOMAIN activities :
        activities[i].name = activities[j].name => i = j

\* C10: a create_activity whose name is already stored never stores a row;
\* when it passes the parent and depth checks the INSERT fails, the response
\* has status 400 and the stored activities are unchanged; stored names are
\* pairwise distinct in every state.
C10_DuplicateNameRejected ==
    /\ []NamesDistinct
    /\ [][(/\ request'.op = "create_activity"
           /\ \E a \in Range(activities) : a.name = request'.name) =>
            LET p == request'.parent_id
                known == p = NoneId \/ p \in ActivityIds(activities)
                lvl == IF p = NoneId THEN 1
                       ELSE RowById(activities, p).level + 1
            IN  /\ activities' = activities
                /\ response'.status # 201
                /\ (known /\ lvl <= max_activity_depth) =>
                      /\ response'.status = 400
                      /\ response'.detail =
                            "Activity violates unique or integrity constraints"
        ]_vars

\* a second "Food" was just refused by the unique index
C10_Witness ==
    /\ request.op = "create_activity"
    /\ \E a \in Range(activities) : a.name = request.name
    /\ response.status = 400
    /\ response.detail = "Activity violates unique or integrity constraints"
    /\ request.parent_id # NoneId
    /\ request.fault = "none"

\* C11: a create_activity whose parent_id refers to no stored activity fails
\* with status 404 "Activity not found"; no INSERT is attempted (the id
\* sequence does not move) and the stored activities are unchanged.
C11_MissingParentNotFound ==
    [][(/\ request'.op = "create_activity"
        /\ request'.parent_id # NoneId
        /\ request'.parent_id \notin ActivityIds(activities)) =>
            /\ response'.status = 404
            /\ response'.detail = "Activity not found"
            /\ activities' = activities
            /\ activity_id_seq' = activity_id_seq
    ]_vars

\* refused with activities stored, for a parent id the sequence handed out
\* to an INSERT that was rolled back, in a request whose commit would fail
C11_Witness ==
    /\ request.op = "create_activity"
    /\ request.parent_id # NoneId
    /\ request.parent_id \notin ActivityIds(activities)
    /\ request.parent_id < activity_id_seq
    /\ request.fault = "commit"
    /\ activities # <<>>
    /\ response.status = 404

----------------------------------------------------------------------------
(* The claims on the organization directory *)

\* the organizations linked to activity a or to one of its descendants
TaggedUnder(a) ==
    {o.id : o \in {r \in Range(organizations) :
                      \E d \in SubtreeIds(activities, a) :
                          <<r.id, d>> \in organization_activity}}

\* C5: get_organizations_by_activity(a) selects exactly the organizations
\* tagged with a or with a transitive descendant of a: total counts them, the
\* page holds only such organizations, each once, and all of them when the
\* page is large enough.
C5_ByActivityWithDescendants ==
    (request.op = "get_organizations_by_activity" /\ response.status = 200) =>
        LET expected == TaggedUnder(request.activity_id)
            page == response.body.organizations
            got == {page[i].id : i \in DOMAIN page}
            total == response.body.total
        IN  /\ total = Cardinality(expected)
            /\ got \subseteq expected
            /\ Cardinality(got) = Len(page)
            /\ Len(page) = Min(request.limit, Max(total - request.offset, 0))
            /\ (request.offset = 0 /\ request.limit >= total) => got = expected

\* asked for Food with two organizations stored, one tagged only with Beef
\* (under Meat under Food) and one only with Cars: the first alone is returned
C5_Witness ==
    /\ request.op = "get_organizations_by_activity"
    /\ response.status = 200
    /\ RowById(activities, request.activity_id).name = "Food"
    /\ request.offset = 0 /\ request.limit = DEFAULT_LIMIT
    /\ Len(organizations) = 2
    /\ \E o, q \in Range(organizations) :
          /\ {l \in organization_activity : l[1] = o.id} = {<<o.id, 3>>}
          /\ {l \in organization_activity : l[1] = q.id} = {<<q.id, 4>>}
          /\ Len(response.body.organizations) = 1
          /\ response.body.organizations[1].id = o.id
    /\ response.body.total = 1

\* C6: a create_organization whose building id is not stored, or one of
\* whose activity_ids is not stored, fails with status 404 and leaves the
\* organizations, the phone rows and the organization-activity links as
\* they were.
C6_CreateOrganizationAllOrNothing ==
    [][(/\ request'.op = "create_organization"
        /\ \/ request'.building_id \notin {b.id : b \in Range(buildings)}
           \/ \E id \in Range(request'.activity_ids) :
                  id \notin ActivityIds(activities)) =>
            /\ response'.status = 404
            /\ organizations' = organizations
            /\ organization_phones' = organization_phones
            /\ organization_activity' = organization_activity
    ]_vars

\* activity_ids = [1, 2, 999] with phones, for a building that exists, was
\* refused while another organization is stored
C6_Witness ==
    /\ request.op = "create_organization"
    /\ request.activity_ids = <<1, 2, MissingId>>
    /\ request.phone_numbers # <<>>
    /\ request.building_id \in {b.id : b \in Range(buildings)}
    /\ response.status = 404
    /\ Len(organizations) = 1
    /\ Len(organization_phones) = 2

----------------------------------------------------------------------------
(* The claims on the location search *)

BboxGiven(search) ==
    Cardinality({f \in {"min_latitude", "max_latitude",
                        "min_longitude", "max_longitude"} : search[f] # None})

\* C7: a location search with no radius_meters and fewer than all four
\* bounding-box fields fails with status 400; a search is answered only when
\* radius_meters is given or all four bounding-box fields are.
C7_UnresolvableSearchRejected ==
    request.op = "search_organizations_by_location" =>
        LET search == request.search
        IN  /\ (search.radius_meters = None /\ BboxGiven(search) < 4) =>
                  response.status = 400
            /\ response.status = 200 =>
                  (search.radius_meters # None \/ BboxGiven(search) = 4)

\* three of the four bounds, one of them 0, and no radius: refused, with an
\* organization in the directory
C7_Witness ==
    /\ request.op = "search_organizations_by_location"
    /\ request.search.radius_meters = None
    /\ BboxGiven(request.search) = 3
    /\ request.search.min_latitude = Some(0)
    /\ response.status = 400
    /\ organizations # <<>>

----------------------------------------------------------------------------
(* The claims on the directory reads *)

Paginated ==
    {"list_organizations", "get_organizations_by_building",
     "get_organizations_by_activity", "search_organizations_by_name",
     "search_organizations_by_location", "list_buildings"}

\* limit and offset of a paginated request
PageLimit(req) ==
    IF req.op = "search_organizations_by_location" THEN req.search.limit
    ELSE req.limit
PageOffset(req) ==
    IF req.op = "search_organizations_by_location" THEN req.search.offset
    ELSE req.offset

\* the stored rows the filter of a paginated request selects, in store order
Matching(req) ==
    CASE req.op = "list_organizations" -> organizations
      [] req.op = "get_organizations_by_building" ->
            SelectSeq(organizations, LAMBDA o : o.building_id = req.building_id)
      [] req.op = "get_organizations_by_activity" ->
            SelectSeq(organizations,
                      LAMBDA o : o.id \in TaggedUnder(req.activity_id))
      [] req.op = "search_organizations_by_name" ->
            SelectSeq(organizations,
                      LAMBDA o : ilike(o.name, <<"%">> \o req.name \o <<"%">>))
      [] req.op = "search_organizations_by_location" ->
            SelectSeq(organizations,
                LAMBDA o :
                    LET at == RowById(buildings, o.building_id).coordinates
                        q == req.search
                    IN  IF q.radius_meters # None
                        THEN ST_DWithin(at, [x |-> q.longitude, y |-> q.latitude],
                                        q.radius_meters[1])
                        ELSE ST_Within(at, q.min_longitude[1], q.min_latitude[1],
                                       q.max_longitude[1], q.max_latitude[1]))
      [] req.op = "list_buildings" -> buildings

\* the rows a paginated response carries
PageOf(req, resp) ==
    IF req.op = "list_buildings" THEN resp.body.buildings
    ELSE resp.body.organizations

\* C12: in the answer of every paginated endpoint (organization list,
\* by-building, by-activity, by-name, by-location, building list), for every
\* limit and offset, total is the number of all stored rows the filter
\* selects, and the page is the slice of those rows that starts after
\* `offset` of them and holds at most `limit`.
C12_TotalAndPage ==
    (request.op \in Paginated /\ response.status = 200) =>
        LET matches == Matching(request)
            page == PageOf(request, response)
            limit == PageLimit(request)
            offset == PageOffset(request)
        IN  /\ response.body.total = Len(matches)
            /\ Len(page) = Min(limit, Max(Len(matches) - offset, 0))
            /\ \A i \in DOMAIN page : page[i].id = matches[offset + i].id

\* three organizations stored, the second one outside the filter: the page
\* asked with limit 1 and offset 1 holds the third alone, and total is 2
C12_Witness ==
    /\ request.op \in Paginated \ {"list_organizations", "list_buildings"}
    /\ response.status = 200
    /\ PageLimit(request) = 1 /\ PageOffset(request) = 1
    /\ Len(organizations) = 3
    /\ response.body.total = 2
    /\ Len(response.body.organizations) = 1
    /\ response.body.organizations[1].id = 3

----------------------------------------------------------------------------
(* The claims on the activity listings *)

\* a stands before b in the order (level ascending, name ascending)
SortsBefore(a, b) ==
    \/ a.level < b.level
    \/ a.level = b.level /\ name_rank(a.name) < name_rank(b.name)

\* C13: list_activities returns the activities in the order (level ascending,
\* name ascending) whatever the order of insertion; when level is given only
\* the activities of exactly that level are returned; limit and offset cut
\* the page out of the filtered and ordered rows.
C13_ListOrderedFilteredPaged ==
    request.op = "list_activities" =>
        LET matching == {a \in Range(activities) :
                            request.level = <<>> \/ a.level = request.level[1]}
            page == response.body
        IN  /\ response.status = 200
            /\ Len(page) = Min(request.limit,
                               Max(Cardinality(matching) - request.offset, 0))
            /\ \A i \in DOMAIN page :
                  /\ page[i] \in matching
                  /\ Cardinality({m \in matching : SortsBefore(m, page[i])}) =
                        request.offset + i - 1

\* Meat was stored before Food, both roots, and Beef under one of them: level
\* 1 asked with limit 1 and offset 1 gives Meat alone
C13_Witness ==
    /\ request.op = "list_activities"
    /\ request.level = <<1>> /\ request.limit = 1 /\ request.offset = 1
    /\ Len(activities) = 3
    /\ activities[1].name = "Meat" /\ activities[2].name = "Food"
    /\ activities[3].level = 2
    /\ Len(response.body) = 1
    /\ response.body[1].name = "Meat"

RECURSIVE FlattenNode(_)
\* a node and the nodes nested in it as flat rows, parents before children
FlattenNode(node) ==
    <<[id |-> node.id, name |-> node.name, parent_id |-> node.parent_id,
       level |-> node.level]>>
    \o Concat([i \in DOMAIN node.children |-> FlattenNode(node.children[i])])

Flatten(forest) == Concat([i \in DOMAIN forest |-> FlattenNode(forest[i])])

\* C14: build_activity_tree is pure and idempotent: a step that calls it
\* leaves the store as it was, the forest recorded for an input is the forest
\* of that input, and flattening a built forest and building again gives the
\* same forest (for the forest a handler built and for the forest of the
\* stored rows in insertion order).
C14_BuildTreeIdempotent ==
    /\ [](LET t == build_activity_tree(activities)
          IN  build_activity_tree(Flatten(t)) = t)
    /\ [](helper_call.fn = "build_activity_tree" =>
            /\ build_activity_tree(helper_call.input) = helper_call.output
            /\ build_activity_tree(Flatten(helper_call.output)) =
                  helper_call.output)
    /\ [][helper_call'.fn = "build_activity_tree" =>
            UNCHANGED <<activity_store, org_store>>]_vars

\* the tree endpoint built a forest in which one root has two children
C14_Witness ==
    /\ request.op = "get_activity_tree"
    /\ helper_call.fn = "build_activity_tree"
    /\ Len(helper_call.input) = 3
    /\ Len(helper_call.output) = 1
    /\ Len(helper_call.output[1].children) = 2
    /\ Flatten(helper_call.output) # activities

----------------------------------------------------------------------------
(* The claims on the buildings and on the write requests *)

\* the latitude and longitude asked for the building of that address
AskedFor(address) == CHOOSE b \in BuildingInputs : b[1] = address

ReportsAsAsked(body) ==
    /\ body.latitude = AskedFor(body.address)[2]
    /\ body.longitude = AskedFor(body.address)[3]

\* C15: after create_building with latitude a and longitude b, the answer of
\* the create request, get_building and list_buildings all report latitude a
\* and longitude b for that building: the pair is neither swapped nor
\* replaced by a default.
C15_CoordinatesRoundTrip ==
    /\ (request.op = "create_building" /\ response.status = 201) =>
          /\ response.body.latitude = request.latitude
          /\ response.body.longitude = request.longitude
    /\ (request.op = "get_building" /\ response.status = 200) =>
          ReportsAsAsked(response.body)
    /\ (request.op = "list_buildings" /\ response.status = 200) =>
          \A i \in DOMAIN response.body.buildings :
              ReportsAsAsked(response.body.buildings[i])

\* get_building answered with the building created at latitude 1, longitude 2
C15_Witness ==
    /\ request.op = "get_building"
    /\ response.status = 200
    /\ response.body.address = "Lenina 1"
    /\ response.body.latitude = 1
    /\ response.body.longitude = 2

Writes == {"create_activity", "create_building", "create_organization"}

\* C18: a create_activity, create_building or create_organization request
\* that answers with an error, at whatever step it met it, a failed commit
\* included, leaves the committed rows of every table as they were.
C18_ErrorLeavesStore ==
    [][(request'.op \in Writes /\ response'.status >= 400) =>
            UNCHANGED tables]_vars

----------------------------------------------------------------------------
(* The claims on the lifecycle of a request *)

C19_SessionReleasedOnce ==
    /\ (db.state = "open") ~> (db.state = "closed")
    /\ [](db.closes <= 1)
    /\ [](db.state = "closed" => db.closes = 1)
    /\ [](inflight = Idle => db.state # "open")

\* create_organization raised on a failed commit and its session is closed
C19_Witness ==
    /\ inflight = Idle
    /\ request.op = "create_organization"
    /\ response.status = 500
    /\ request.fault = "commit"
    /\ db.state = "closed"
    /\ db.closes = 1

----------------------------------------------------------------------------
(* The claims on lookups by id and on the mode of the location search *)

\* C17: a lookup by an id that no stored row has answers 404: get_activity,
\* get_building, get_organization, get_organizations_by_building and
\* get_organizations_by_activity never answer such an id with a result,
\* empty or not.
C17_MissingIdNotFound ==
    /\ (/\ request.op \in {"get_activity", "get_organizations_by_activity"}
        /\ request.activity_id \notin ActivityIds(activities)) =>
            response.status = 404
    /\ (/\ request.op \in {"get_building", "get_organizations_by_building"}
        /\ request.building_id \notin {b.id : b \in Range(buildings)}) =>
            response.status = 404
    /\ (/\ request.op = "get_organization"
        /\ request.organization_id \notin {o.id : o \in Range(organizations)}) =>
            response.status = 404

\* the organizations of a building that does not exist were asked for while
\* organizations are stored
C17_Witness ==
    /\ request.op = "get_organizations_by_building"
    /\ request.building_id = MissingId
    /\ response.status = 404
    /\ Len(organizations) = 2

\* the ids of the stored organizations whose building satisfies the radius
\* predicate, and the bounding-box predicate, of a search
InRadius(q) ==
    {o.id : o \in {r \in Range(organizations) :
        ST_DWithin(RowById(buildings, r.building_id).coordinates,
                   [x |-> q.longitude, y |-> q.latitude], q.radius_meters[1])}}
InBbox(q) ==
    {o.id : o \in {r \in Range(organizations) :
        ST_Within(RowById(buildings, r.building_id).coordinates,
                  q.min_longitude[1], q.min_latitude[1],
                  q.max_longitude[1], q.max_latitude[1])}}

\* C20: the mode of a location search is the first that matches: with
\* radius_meters present the answer is made by the radius predicate alone,
\* also when all four bounding-box fields are present; the bounding-box
\* predicate makes the answer only when radius_meters is absent and all four
\* fields are present.
C20_FirstMatchWins ==
    request.op = "search_organizations_by_location" =>
        LET q == request.search
            page == response.body.organizations
        IN  /\ q.radius_meters # None =>
                  /\ response.status = 200
                  /\ response.body.total = Cardinality(InRadius(q))
                  /\ {page[i].id : i \in DOMAIN page} \subseteq InRadius(q)
            /\ (q.radius_meters = None /\ BboxGiven(q) = 4) =>
                  /\ response.status = 200
                  /\ response.body.total = Cardinality(InBbox(q))
                  /\ {page[i].id : i \in DOMAIN page} \subseteq InBbox(q)
            /\ (q.radius_meters = None /\ BboxGiven(q) < 4) =>
                  response.status # 200

\* radius and all four bounds given, around a building that is within the
\* radius and not inside the box: its organizations are returned
C20_Witness ==
    /\ request.op = "search_organizations_by_location"
    /\ request.search.radius_meters # None
    /\ BboxGiven(request.search) = 4
    /\ InRadius(request.search) # {}
    /\ InBbox(request.search) = {}
    /\ response.status = 200
    /\ response.body.total = Cardinality(InRadius(request.search))
    /\ Len(response.body.organizations) > 0

----------------------------------------------------------------------------
(* The claims on the centre point and on the name search *)

BboxMode(q) == q.radius_meters = None /\ BboxGiven(q) = 4

\* C21: in bbox mode the answer of a location search does not depend on the
\* centre point: of two searches answered one after the other on the same
\* store, both without radius and with the same four bounds, limit and
\* offset, the second gets the organizations and the total of the first.
C21_BboxIgnoresCentre ==
    [][(/\ request.op = "search_organizations_by_location"
        /\ request'.op = "search_organizations_by_location"
        /\ BboxMode(request.search) /\ BboxMode(request'.search)
        /\ request'.search = [request.search EXCEPT
                                 !.latitude = request'.search.latitude,
                                 !.longitude = request'.search.longitude]
        /\ UNCHANGED tables) =>
            response' = response
    ]_vars

\* a bbox search centred on (1, 1) found the organizations of a building
\* inside the box, with no radius given
C21_Witness ==
    /\ request.op = "search_organizations_by_location"
    /\ BboxMode(request.search)
    /\ request.search.latitude = 1 /\ request.search.longitude = 1
    /\ response.status = 200
    /\ response.body.total = 2
    /\ Len(response.body.organizations) = 2

\* the characters of text with the letters in lower case
Lowered(text) == [i \in DOMAIN text |-> lower(text[i])]

\* part stands in text as a run of consecutive characters, case aside
ContainsIgnoringCase(text, part) ==
    \E k \in 0..(Len(text) - Len(part)) :
        SubSeq(Lowered(text), k + 1, k + Len(part)) = Lowered(part)

\* C22: the name search answers with exactly the organizations whose name
\* contains the search string as a substring, compared case-insensitively,
\* for every non-empty search string, the strings made of the characters
\* "%" and "_" included: total counts them and the page is their slice.
C22_NameSearchIsSubstring ==
    (/\ request.op = "search_organizations_by_name"
     /\ request.name # <<>>
     /\ response.status = 200) =>
        LET containing ==
                SelectSeq(organizations,
                          LAMBDA o : ContainsIgnoringCase(o.name, request.name))
            page == response.body.organizations
        IN  /\ response.body.total = Len(containing)
            /\ Len(page) = Min(request.limit,
                               Max(Len(containing) - request.offset, 0))
            /\ \A i \in DOMAIN page :
                   page[i].id = containing[request.offset + i].id

----------------------------------------------------------------------------
(* The claim on the deletion of activities *)

\* no stored activity refers to a parent that is not stored
NoDanglingParent(rows) ==
    \A a \in Range(rows) : a.parent_id = NoneId \/ a.parent_id \in ActivityIds(rows)

\* C23: the deletion of a stored activity removes it with all its transitive
\* descendants and nothing else from the activities, removes exactly the
\* organization-activity links to a removed activity, and leaves the
\* organizations; afterwards no stored activity has a parent_id that refers
\* to a missing activity.
C23_DeleteCascades ==
    [][(request'.op = "delete_activity"
        /\ request'.activity_id \in ActivityIds(activities)) =>
            LET gone == SubtreeIds(activities, request'.activity_id)
            IN  /\ activities' =
                       SelectSeq(activities, LAMBDA a : a.id \notin gone)
                /\ organization_activity' =
                       {l \in organization_activity : l[2] \notin gone}
                /\ organizations' = organizations
                /\ organization_phones' = organization_phones
                /\ NoDanglingParent(activities')
    ]_vars

\* Meat was deleted: Beef went with it, Food and Cars stay, and the
\* organization that was tagged with Food and Meat keeps the link to Food
C23_Witness ==
    /\ request.op = "delete_activity"
    /\ request.activity_id = 2
    /\ ActivityIds(activities) = {1, 4}
    /\ organizations # <<>>
    /\ organization_activity = {<<1, 1>>}

----------------------------------------------------------------------------
(* The claim on concurrent creations *)

\* the request of worker w has passed the checks that come before the commit
PassedChecks(w) ==
    /\ transactions[w].pc \in {"added", "flushed", "done"}
    /\ transactions[w].pc = "done" =>
           \/ transactions[w].response.status = 201
           \/ transactions[w].response =
                  HTTPException(400,
                      "Activity violates unique or integrity constraints")

\* C24: of two create_activity requests with the same name that have both
\* passed the checks before the commit, in whatever order their steps are
\* taken, at most one commits: never are both inserts in place at once,
\* never are both answered 201, the one that finds the other's row is
\* answered 400 and none of its rows is stored, and the store never holds
\* two activities of one name.
C24_OneOfTwoCommits ==
    /\ NamesDistinct
    /\ \A w, v \in Workers :
           (/\ w # v
            /\ PassedChecks(w) /\ PassedChecks(v)
            /\ transactions[w].name = transactions[v].name) =>
               /\ ~(transactions[w].pc = "flushed" /\ transactions[v].pc = "flushed")
               /\ (transactions[w].pc = "done" /\ transactions[v].pc = "done") =>
                      /\ ~(transactions[w].response.status = 201
                           /\ transactions[v].response.status = 201)
                      /\ transactions[v].response.status # 201 =>
                             /\ transactions[v].response.status = 400
                             /\ \A a \in Range(activities) :
                                    a.id # transactions[v].row.id

\* both requests began on the empty store with the name Food; the first was
\* answered 201, the second found its row at the INSERT and was answered 400
C24_Witness ==
    /\ transactions[1].pc = "done" /\ transactions[2].pc = "done"
    /\ transactions[1].name = "Food" /\ transactions[2].name = "Food"
    /\ transactions[1].began_at = 0 /\ transactions[2].began_at = 0
    /\ transactions[1].response.status = 201
    /\ transactions[2].response.status = 400
    /\ Len(activities) = 1

----------------------------------------------------------------------------
(* The claim on the depth of the descendant walks *)

\* C25: on every reachable store, under every configured max depth, both
\* recursive walks end and return every transitive descendant of the stored
\* activity they start from, each once, whatever its level: the walk of the
\* by-activity handler with the start itself, the walk of get_activity
\* without it; a walk from a leaf returns no descendant.  The list
\* get_activity built from its walk holds the whole subtree.
C25_WalksReachEveryLevel ==
    /\ \A x \in ActivityIds(activities) :
          LET with_self == get_activity_descendants(activities, x)
              below == get_all_descendants(activities, x)
              subtree == SubtreeIds(activities, x)
          IN  /\ Range(with_self) = subtree
              /\ Len(with_self) = Cardinality(subtree)
              /\ {a.id : a \in Range(below)} = subtree \ {x}
              /\ Len(below) = Cardinality(subtree) - 1
              /\ ChildIds(activities, x) = {} => below = <<>>
              /\ \A a \in Range(activities) :
                     (a.id \in subtree /\ a.id # x) =>
                         a.level \in {b.level : b \in Range(below)}
    /\ (request.op = "get_activity" /\ response.status = 200) =>
          /\ helper_call.fn = "build_activity_tree"
          /\ ActivityIds(helper_call.input) =
                 SubtreeIds(activities, request.activity_id)

\* under a configured depth of 4, get_activity walked from a root down to
\* the activity of level 3 below it
C25_Witness ==
    /\ max_activity_depth = 4
    /\ request.op = "get_activity"
    /\ response.status = 200
    /\ helper_call.fn = "build_activity_tree"
    /\ {a.level : a \in Range(helper_call.input)} = {1, 2, 3}
    /\ RowById(activities, request.activity_id).parent_id = NoneId

----------------------------------------------------------------------------
(* The claims on the order and the completeness of the tree *)

RECURSIVE NodeSiblingLists(_)
\* the children list of a node and of every node nested in it
NodeSiblingLists(node) ==
    {node.children} \cup
    UNION {NodeSiblingLists(node.children[i]) : i \in DOMAIN node.children}

\* the list of roots and every children list of a forest
ForestSiblingLists(forest) ==
    {forest} \cup UNION {NodeSiblingLists(forest[i]) : i \in DOMAIN forest}

\* the nodes of the list stand in the order their rows have in the input
InInputOrder(list, inp) ==
    \A i, j \in DOMAIN list :
        i < j => \E k, l \in DOMAIN inp :
                     /\ inp[k].id = list[i].id /\ inp[l].id = list[j].id
                     /\ k < l

SortedByName(list) ==
    \A i, j \in DOMAIN list :
        i < j => name_rank(list[i].name) < name_rank(list[j].name)

\* C26: build_activity_tree appends roots and children in the order of its
\* input: in every forest it built, the roots and the children of every node
\* stand in input order; hence in the answer of get_activity_tree, whose
\* input is ordered by (level, name), the roots and every children list are
\* sorted by name ascending.
C26_SiblingsInInputOrder ==
    /\ helper_call.fn = "build_activity_tree" =>
          \A list \in ForestSiblingLists(helper_call.output) :
              InInputOrder(list, helper_call.input)
    /\ (request.op = "get_activity_tree" /\ response.status = 200) =>
          \A list \in ForestSiblingLists(response.body.activities) :
              SortedByName(list)

\* Meat and Food were stored as roots in that order, with a child under one
\* of them: the tree endpoint answers with Food before Meat
C26_Witness ==
    /\ request.op = "get_activity_tree"
    /\ Len(activities) = 3
    /\ activities[1].name = "Meat" /\ activities[1].parent_id = NoneId
    /\ activities[2].name = "Food" /\ activities[2].parent_id = NoneId
    /\ activities[3].parent_id # NoneId
    /\ Len(response.body.activities) = 2
    /\ response.body.activities[1].name = "Food"
    /\ response.body.activities[2].name = "Meat"

----------------------------------------------------------------------------
(* The claim on the check constraint *)

\* C27: every stored activity has a level from 1 to 3, whatever
\* MAX_ACTIVITY_DEPTH is configured to; under a configured depth above 3, a
\* create_activity under a parent of level 3 passes the depth check, is
\* rejected by the check constraint with the 400 of the integrity error,
\* and no row is stored under that parent.
C27_LevelWithinCheck ==
    /\ \A a \in Range(activities) :
           a.level >= CHECK_LEVEL_MIN /\ a.level <= CHECK_LEVEL_MAX
    /\ (/\ request.op = "create_activity"
        /\ max_activity_depth > CHECK_LEVEL_MAX
        /\ request.parent_id \in ActivityIds(activities)
        /\ RowById(activities, request.parent_id).level = CHECK_LEVEL_MAX) =>
           /\ response = HTTPException(400,
                  "Activity violates unique or integrity constraints")
           /\ ChildIds(activities, request.parent_id) = {}

\* the configured depth is 4 and a create_activity with a new name under the
\* activity of level 3 was answered 400 by the integrity branch
C27_Witness ==
    /\ max_activity_depth = 4
    /\ request.op = "create_activity"
    /\ request.parent_id \in ActivityIds(activities)
    /\ RowById(activities, request.parent_id).level = 3
    /\ \A a \in Range(activities) : a.name # request.name
    /\ response = HTTPException(400,
           "Activity violates unique or integrity constraints")

----------------------------------------------------------------------------
(* The claims on the organizations and their activities *)

\* C28: a create_organization whose building is stored and whose activity
\* ids are all stored succeeds, also when the list repeats an id or is
\* empty; the organization it stores is linked to exactly the set of the
\* listed activities and owns one phone row for every entry of
\* phone_numbers.
C28_CreateOrganizationSucceeds ==
    (/\ request.op = "create_organization"
     /\ request.fault = "none"
     /\ request.building_id \in {b.id : b \in Range(buildings)}
     /\ Range(request.activity_ids) \subseteq ActivityIds(activities)) =>
        /\ response.status = 201
        /\ LET id == response.body.id
           IN  /\ \E o \in Range(organizations) : o.id = id
               /\ {l[2] : l \in {k \in organization_activity : k[1] = id}} =
                      Range(request.activity_ids)
               /\ LET own == SelectSeq(organization_phones,
                                       LAMBDA p : p.organization_id = id)
                  IN  [i \in DOMAIN own |-> own[i].phone_number] =
                          request.phone_numbers

\* C29: in every store create_activity requests have left, the forest the
\* tree endpoint returns holds each stored activity exactly once: the roots,
\* and only they, at the top level, and every other activity in the children
\* list of its own parent and in no other.
C29_TreeHoldsEachActivityOnce ==
    (request.op = "get_activity_tree" /\ response.status = 200) =>
        LET forest == response.body.activities
            counts == [i \in DOMAIN forest |-> NodeCount(forest[i])]
            Sum[n \in 0..Len(counts)] ==
                IF n = 0 THEN 0 ELSE counts[n] + Sum[n - 1]
        IN  /\ ForestIds(forest) = ActivityIds(activities)
            /\ Sum[Len(counts)] = Len(activities)
            /\ {forest[i].id : i \in DOMAIN forest} =
                   {a.id : a \in {r \in Range(activities) : r.parent_id = NoneId}}
            /\ UNION {NodeEdges(forest[i]) : i \in DOMAIN forest} =
                   {<<a.id, a.parent_id>> :
                       a \in {r \in Range(activities) : r.parent_id # NoneId}}

\* a chain of three activities is stored and the tree endpoint answered with
\* one root that holds its child, which holds the grandchild
C29_Witness ==
    /\ request.op = "get_activity_tree"
    /\ Len(activities) = 3
    /\ Len(response.body.activities) = 1
    /\ Len(response.body.activities[1].children) = 1
    /\ Len(response.body.activities[1].children[1].children) = 1

\* the links of organization o to the activities of the subtree of a
SubtreeLinks(o, a) ==
    {l \in organization_activity :
        l[1] = o /\ l[2] \in SubtreeIds(activities, a)}

\* C30: get_organizations_by_activity returns no organization twice, on any
\* page, and total is the number of distinct organizations that have a link
\* into the queried subtree, not the number of such links: an organization
\* tagged with several activities of the subtree counts once and is
\* returned once.
C30_ByActivityDistinct ==
    (request.op = "get_organizations_by_activity" /\ response.status = 200) =>
        LET page == response.body.organizations
            linked == {o.id : o \in {r \in Range(organizations) :
                                        SubtreeLinks(r.id, request.activity_id) # {}}}
        IN  /\ \A i, j \in DOMAIN page : page[i].id = page[j].id => i = j
            /\ response.body.total = Cardinality(linked)
            /\ (request.offset = 0 /\ request.limit >= Cardinality(linked)) =>
                   /\ Len(page) = Cardinality(linked)
                   /\ {page[i].id : i \in DOMAIN page} = linked

\* the only organization is tagged with Food and with Meat; asked for Food,
\* the endpoint returns it once with total 1
C30_Witness ==
    /\ request.op = "get_organizations_by_activity"
    /\ response.status = 200
    /\ request.activity_id = 1
    /\ request.offset = 0 /\ request.limit = DEFAULT_LIMIT
    /\ Len(organizations) = 1
    /\ Cardinality(SubtreeLinks(organizations[1].id, 1)) = 2
    /\ response.body.total = 1
    /\ Len(response.body.organizations) = 1

====
